---- MODULE Spec2Model ----
(***************************************************************************)
(* Model of vscode-theme-converter: the per-variant registry tables        *)
(* (src/src/base.ts, schemes and registerColor), the recursive resolver    *)
(* (resolveColorValue and executeTransform), the kate and docgen           *)
(* renderers (overlay, editor colours, text styles, CSS), the loader of    *)
(* theme packages (downloadTheme), matchScope and the command line (main). *)
(*                                                                         *)
(* JavaScript values are records tagged with their typeof: a string is     *)
(* [type |-> "string", s |-> "..."], null is [type |-> "null"], undefined  *)
(* is [type |-> "undefined"], a transform is [type |-> "object", op |-> ..]*)
(* and a thrown exception is [type |-> "throw", error |-> name].  A plain  *)
(* object used as lookup context is a function from its own keys to        *)
(* values; property reads go through the prototype chain (Lookup).         *)
(* A number factor f is held in thousandths (0.2 is 200).                  *)
(***************************************************************************)
EXTENDS Integers, Sequences, FiniteSets, TLC

VARIABLES
  schemes,        \* the four registry tables of base.ts
  registrations,  \* number of registerColor calls made so far
  declared,       \* history: what the latest registration of an id supplied
  call,           \* the call in progress: its arguments and outcome, or main
  themeColors,    \* the overlay built by the conversion in progress
  output,         \* what the conversion in progress returns
  earlier,        \* history: the colors of the theme converted before
  seen            \* history: a resolver call that returned before

vars ==
  <<schemes, registrations, declared, call, themeColors, output, earlier,
    seen>>

(***************************************************************************)
(* Values                                                                  *)
(***************************************************************************)
Variants == {"dark", "hcDark", "hcLight", "light"}

Str(s) == [type |-> "string", s |-> s]

Null == [type |-> "null"]

Undefined == [type |-> "undefined"]

Throw(e) == [type |-> "throw", error |-> e]

\* Object.prototype, what theme["__proto__"] reads on a plain object.
ObjectPrototype == [type |-> "object"]

\* A native method inherited from Object.prototype (typeof is "function").
FunctionValue == [type |-> "function"]

ObjectPrototypeMethods ==
  {"constructor", "hasOwnProperty", "isPrototypeOf", "propertyIsEnumerable",
   "toLocaleString", "toString", "valueOf"}

IsString(v) == v.type = "string"

\* JavaScript truthiness of the values the model holds: !value is Falsy(value).
Falsy(v) == v.type \in {"null", "undefined"} \/ (v.type = "string" /\ v.s = "")

\* The transform constructors of base.ts.
darken(colorValue, factor) ==
  [type |-> "object", op |-> "Darken", value |-> colorValue, factor |-> factor]

lighten(colorValue, factor) ==
  [type |-> "object", op |-> "Lighten", value |-> colorValue, factor |-> factor]

transparent(colorValue, factor) ==
  [type |-> "object", op |-> "Transparent", value |-> colorValue, factor |-> factor]

oneOf(colorValues) == [type |-> "object", op |-> "OneOf", values |-> colorValues]

ifDefinedThenElse(ifArg, thenArg, elseArg) ==
  [type |-> "object", op |-> "IfDefinedThenElse", if |-> ifArg,
   then |-> thenArg, else |-> elseArg]

lessProminent(colorValue, backgroundColorValue, factor, transparency) ==
  [type |-> "object", op |-> "LessProminent", value |-> colorValue,
   background |-> backgroundColorValue, factor |-> factor,
   transparency |-> transparency]

\* Faulty variant of Lookup: the colours of the theme converted last are kept
\* in a module-level object that is read before the context.
LookupShared(theme, key) ==
  IF key \in DOMAIN earlier THEN earlier[key]
  ELSE IF key \in DOMAIN theme THEN theme[key]
  ELSE IF key = "__proto__" THEN ObjectPrototype
  ELSE IF key \in ObjectPrototypeMethods THEN FunctionValue
  ELSE Undefined

\* theme[key] on a plain object: own property first, then Object.prototype.
Lookup(theme, key) ==
  IF key \in DOMAIN theme THEN theme[key]
  ELSE IF key = "__proto__" THEN ObjectPrototype
  ELSE IF key \in ObjectPrototypeMethods THEN FunctionValue
  ELSE Undefined

(***************************************************************************)
(* tinycolor2, as far as base.ts uses it: parsing of hex strings, darken,  *)
(* lighten, setAlpha and toHexString.  Channels are 0..255, alpha is held  *)
(* in thousandths.  darken and lighten go through HSL; the model computes  *)
(* them for achromatic colours (r = g = b), where lightness is r/255.      *)
(***************************************************************************)
HexLower == "0123456789abcdef"

HexUpper == "0123456789ABCDEF"

CharAt(s, i) == SubSeq(s, i, i)

IsHexDigit(c) ==
  \E i \in 1..16 : CharAt(HexLower, i) = c \/ CharAt(HexUpper, i) = c

HexDigitValue(c) ==
  (CHOOSE i \in 1..16 : CharAt(HexLower, i) = c \/ CharAt(HexUpper, i) = c) - 1

IsHex(s) == \A i \in 1..Len(s) : IsHexDigit(CharAt(s, i))

parseIntFromHex(s) ==
  IF Len(s) = 1
  THEN 17 * HexDigitValue(s)
  ELSE 16 * HexDigitValue(CharAt(s, 1)) + HexDigitValue(CharAt(s, 2))

\* tinycolor2(color): hex8, hex6, hex4 and hex3 with an optional '#';
\* anything else is not ok and reads as opaque black.
tinycolor2(color) ==
  LET hex == IF Len(color) > 0 /\ CharAt(color, 1) = "#"
             THEN SubSeq(color, 2, Len(color)) ELSE color
      n == Len(hex)
      w == IF n \in {6, 8} THEN 2 ELSE 1
      chan(k) == parseIntFromHex(SubSeq(hex, (k - 1) * w + 1, k * w))
  IN IF n \in {3, 4, 6, 8} /\ IsHex(hex)
     THEN [r |-> chan(1), g |-> chan(2), b |-> chan(3),
           a |-> IF n \in {4, 8} THEN (chan(4) * 1000) \div 255 ELSE 1000,
           ok |-> TRUE]
     ELSE [r |-> 0, g |-> 0, b |-> 0, a |-> 1000, ok |-> FALSE]

clamp255(n) == IF n < 0 THEN 0 ELSE IF n > 255 THEN 255 ELSE n

\* darken(amount): lightness l - amount/100, clamped to [0, 1], so a channel
\* moves by 255*amount/100 and is rounded half up when the colour is printed.
\* An amount is held in 1/10000 (a factor of 0.2 is the amount 2000).
tinyDarken(c, amount) ==
  LET ch == clamp255((2000000 * c.r - 510 * amount + 1000000) \div 2000000)
  IN [c EXCEPT !.r = ch, !.g = ch, !.b = ch, !.ok = TRUE]

tinyLighten(c, amount) ==
  LET ch == clamp255((2000000 * c.r + 510 * amount + 1000000) \div 2000000)
  IN [c EXCEPT !.r = ch, !.g = ch, !.b = ch, !.ok = TRUE]

\* setAlpha(value): an alpha outside [0, 1] is bound to 1.
setAlpha(c, value) ==
  [c EXCEPT !.a = IF value < 0 \/ value > 1000 THEN 1000 ELSE value]

pad2(n) == CharAt(HexLower, (n \div 16) + 1) \o CharAt(HexLower, (n % 16) + 1)

\* toHexString(): "#rrggbb", lower case; the alpha channel is not printed.
toHexString(c) == "#" \o pad2(c.r) \o pad2(c.g) \o pad2(c.b)

\* Relative luminance of one sRGB channel value 0..255, in 1/100000:
\* c/12.92 below 0.03928 and ((c + 0.055)/1.055)^2.4 above it.
ChannelLuminance ==
  <<
    0, 30, 61, 91, 121, 152, 182, 212, 243, 273, 304, 335,
    368, 402, 439, 478, 518, 561, 605, 651, 700, 750, 802, 857,
    913, 972, 1033, 1096, 1161, 1229, 1298, 1370, 1444, 1521, 1600, 1681,
    1764, 1850, 1938, 2029, 2122, 2217, 2315, 2416, 2519, 2624, 2732, 2843,
    2956, 3071, 3190, 3310, 3434, 3560, 3689, 3820, 3955, 4092, 4231, 4374,
    4519, 4667, 4817, 4971, 5127, 5286, 5448, 5613, 5781, 5951, 6125, 6301,
    6480, 6663, 6848, 7036, 7227, 7421, 7619, 7819, 8022, 8228, 8438, 8650,
    8866, 9084, 9306, 9531, 9759, 9990, 10224, 10462, 10702, 10946, 11193, 11444,
    11697, 11954, 12214, 12477, 12744, 13014, 13287, 13563, 13843, 14126, 14413, 14703,
    14996, 15293, 15593, 15896, 16203, 16513, 16827, 17144, 17465, 17789, 18116, 18447,
    18782, 19120, 19462, 19807, 20156, 20508, 20864, 21223, 21586, 21953, 22323, 22697,
    23074, 23455, 23840, 24228, 24620, 25016, 25415, 25818, 26225, 26636, 27050, 27468,
    27889, 28315, 28744, 29177, 29614, 30054, 30499, 30947, 31399, 31855, 32314, 32778,
    33245, 33716, 34191, 34670, 35153, 35640, 36131, 36625, 37124, 37626, 38133, 38643,
    39157, 39676, 40198, 40724, 41254, 41789, 42327, 42869, 43415, 43966, 44520, 45079,
    45641, 46208, 46778, 47353, 47932, 48515, 49102, 49693, 50289, 50888, 51492, 52100,
    52712, 53328, 53948, 54572, 55201, 55834, 56471, 57112, 57758, 58408, 59062, 59720,
    60383, 61050, 61721, 62396, 63076, 63760, 64448, 65141, 65837, 66539, 67244, 67954,
    68669, 69387, 70110, 70838, 71569, 72306, 73046, 73791, 74540, 75294, 76052, 76815,
    77582, 78354, 79130, 79910, 80695, 81485, 82279, 83077, 83880, 84687, 85499, 86316,
    87137, 87962, 88792, 89627, 90466, 91310, 92158, 93011, 93869, 94731, 95597, 96469,
    97345, 98225, 99110, 100000
  >>

\* getLuminance(): 0.2126 R + 0.7152 G + 0.0722 B, in 1/100000.
getLuminance(c) ==
  (2126 * ChannelLuminance[c.r + 1] + 7152 * ChannelLuminance[c.g + 1]
     + 722 * ChannelLuminance[c.b + 1]) \div 10000

\* A JavaScript number that may be NaN; value counts 1/10000.
Number(value) == [nan |-> FALSE, value |-> value]

NaN == [nan |-> TRUE, value |-> 0]

\* factor = factor ? factor : 0.5; factor = (factor * (lum2 - lum1)) / lum2
\* with factor in thousandths: 0 / 0 is NaN.
lighterAmount(of, relative, factor) ==
  LET f == IF factor # 0 THEN factor ELSE 500
      lum1 == getLuminance(of)
      lum2 == getLuminance(relative)
  IN IF lum2 = 0 THEN NaN ELSE Number((f * (lum2 - lum1) * 10) \div lum2)

\* factor = factor ? factor : 0.5; factor = (factor * (lum1 - lum2)) / lum1
darkerAmount(of, relative, factor) ==
  LET f == IF factor # 0 THEN factor ELSE 500
      lum1 == getLuminance(of)
      lum2 == getLuminance(relative)
  IN IF lum1 = 0 THEN NaN ELSE Number((f * (lum1 - lum2) * 10) \div lum1)

\* tinycolor2 reads the amount as (amount === 0) ? 0 : (amount || 10), in
\* percent: NaN becomes 10.
percent(amount) == IF amount.nan THEN 100000 ELSE amount.value

\* Color.getLighterColor(of, relative, factor)
getLighterColor(of, relative, factor) ==
  IF getLuminance(of) > getLuminance(relative) THEN of
  ELSE tinyLighten(of, percent(lighterAmount(of, relative, factor)))

\* Color.getDarkerColor(of, relative, factor)
getDarkerColor(of, relative, factor) ==
  IF getLuminance(of) < getLuminance(relative) THEN of
  ELSE tinyDarken(of, percent(darkerAmount(of, relative, factor)))

(***************************************************************************)
(* The resolver.  A call returns [out, calls]: out is the returned value   *)
(* (a string, undefined) or the exception thrown; calls is the sequence of *)
(* resolveColorValue and tinycolor2 invocations the call made, in order.   *)
(* stack is the set of identifiers whose lookup is on the call stack: the  *)
(* resolver is deterministic, so entering an identifier that is already on *)
(* the stack recurses without end, which JavaScript ends with a RangeError *)
(* (maximum call stack size exceeded).                                     *)
(***************************************************************************)
RECURSIVE resolveColorValue(_, _, _), executeTransform(_, _, _), oneOfLoop(_, _, _, _)

\* const x = value; Body(x): the value is computed once and then named.
With(value, Body(_)) == CHOOSE y \in {Body(x) : x \in {value}} : TRUE

Ret(out, calls) == [out |-> out, calls |-> calls]

Resolved(colorValue) == [fn |-> "resolveColorValue", arg |-> colorValue]

Arithmetic(color) == [fn |-> "tinycolor2", arg |-> color]

IsThrow(r) == r.out.type = "throw"

TransformOps ==
  {"Darken", "Lighten", "Transparent", "OneOf", "LessProminent", "IfDefinedThenElse"}

\* Faulty variant of isLiteral: only "#" followed by 3, 6 or 8 characters is
\* taken for a literal.
isLiteralOfHexLength(s) == Len(s) \in {4, 7, 9} /\ CharAt(s, 1) = "#"

\* colorValue[0] === "#"
isLiteral(s) == Len(s) > 0 /\ CharAt(s, 1) = "#"

\* The numeric adjustment of Darken, Lighten and Transparent.
adjust(transform, t) ==
  CASE transform.op = "Darken" -> tinyDarken(t, 10 * transform.factor)
    [] transform.op = "Lighten" -> tinyLighten(t, 10 * transform.factor)
    [] transform.op = "Transparent" -> setAlpha(t, transform.factor)

\* Faulty variant of executeAdjust: the test "if (!color) return undefined" is
\* missing, and tinycolor2 turns the undefined input into black.
executeAdjustUnguarded(transform, theme, stack) ==
  With(resolveColorValue(transform.value, theme, stack), LAMBDA color :
    IF IsThrow(color) THEN color
    ELSE With(IF Falsy(color.out) THEN "" ELSE color.out.s, LAMBDA s :
           Ret(Str(toHexString(adjust(transform, tinycolor2(s)))),
               color.calls \o <<Arithmetic(s)>>)))

\* case Darken, case Lighten, case Transparent
executeAdjust(transform, theme, stack) ==
  With(resolveColorValue(transform.value, theme, stack), LAMBDA color :
    IF IsThrow(color) THEN color
    ELSE IF Falsy(color.out) THEN Ret(Undefined, color.calls)
    ELSE Ret(Str(toHexString(adjust(transform, tinycolor2(color.out.s)))),
             color.calls \o <<Arithmetic(color.out.s)>>))

\* case OneOf: for (const candidate of transform.values) {
\*   const color = resolveColorValue(candidate, theme); if (color) return color }
oneOfLoop(values, i, theme, stack) ==
  IF i > Len(values) THEN Ret(Undefined, <<>>)
  ELSE With(resolveColorValue(values[i], theme, stack), LAMBDA color :
         IF IsThrow(color) \/ ~Falsy(color.out) THEN color
         ELSE [oneOfLoop(values, i + 1, theme, stack)
                 EXCEPT !.calls = color.calls \o @])

\* case IfDefinedThenElse: theme.defines(transform.if) is called first.  A plain
\* object has no method "defines" (its own entries are colour values, and
\* Object.prototype has none), so the call throws a TypeError.
executeIfDefinedThenElse(transform, theme, stack) ==
  Ret(Throw("TypeError: theme.defines is not a function"), <<>>)

\* case LessProminent
executeLessProminent(transform, theme, stack) ==
  With(resolveColorValue(transform.value, theme, stack), LAMBDA from :
    IF IsThrow(from) THEN from
    ELSE IF Falsy(from.out) THEN Ret(Undefined, from.calls)
    ELSE With(resolveColorValue(transform.background, theme, stack),
              LAMBDA backgroundColor :
           IF IsThrow(backgroundColor)
           THEN Ret(backgroundColor.out, from.calls \o backgroundColor.calls)
           ELSE IF Falsy(backgroundColor.out)
           THEN Ret(Str(toHexString(
                      setAlpha(tinycolor2(from.out.s),
                               (transform.factor * transform.transparency)
                                 \div 1000))),
                    from.calls \o backgroundColor.calls
                      \o <<Arithmetic(from.out.s)>>)
           ELSE With(<<tinycolor2(from.out.s),
                       tinycolor2(backgroundColor.out.s)>>, LAMBDA t :
                  Ret(Str(toHexString(setAlpha(
                        IF getLuminance(t[1]) < getLuminance(t[2])
                        THEN getLighterColor(t[1], t[2], transform.factor)
                        ELSE getDarkerColor(t[1], t[2], transform.factor),
                        transform.transparency))),
                      from.calls \o backgroundColor.calls
                        \o <<Arithmetic(from.out.s),
                             Arithmetic(backgroundColor.out.s)>>))))

\* Faulty variant of executeTransform: the default case returns undefined.
executeTransformLenient(transform, theme, stack) ==
  IF "op" \notin DOMAIN transform \/ transform.op \notin TransformOps
  THEN Ret(Undefined, <<>>)
  ELSE CASE transform.op \in {"Darken", "Lighten", "Transparent"} ->
              executeAdjust(transform, theme, stack)
         [] transform.op = "OneOf" ->
              oneOfLoop(transform.values, 1, theme, stack)
         [] transform.op = "IfDefinedThenElse" ->
              executeIfDefinedThenElse(transform, theme, stack)
         [] transform.op = "LessProminent" ->
              executeLessProminent(transform, theme, stack)

\* switch (transform.op) { ... default: throw new Error("Invalid transform") }
executeTransform(transform, theme, stack) ==
  IF "op" \notin DOMAIN transform \/ transform.op \notin TransformOps
  THEN Ret(Throw("Error: Invalid transform"), <<>>)
  ELSE CASE transform.op \in {"Darken", "Lighten", "Transparent"} ->
              executeAdjust(transform, theme, stack)
         [] transform.op = "OneOf" ->
              oneOfLoop(transform.values, 1, theme, stack)
         [] transform.op = "IfDefinedThenElse" ->
              executeIfDefinedThenElse(transform, theme, stack)
         [] transform.op = "LessProminent" ->
              executeLessProminent(transform, theme, stack)

\* Faulty variant of resolveColorValue: the looked-up entry is returned when it
\* is a literal and is not resolved any further when it is not.
resolveColorValueOneLevel(colorValue, theme, stack) ==
  IF colorValue = Null THEN Ret(Undefined, <<Resolved(colorValue)>>)
  ELSE IF colorValue.type = "string"
  THEN IF isLiteral(colorValue.s)
       THEN Ret(colorValue, <<Resolved(colorValue)>>)
       ELSE With(Lookup(theme, colorValue.s), LAMBDA entry :
              Ret(IF entry.type = "string" /\ isLiteral(entry.s)
                  THEN entry ELSE Undefined,
                  <<Resolved(colorValue)>>))
  ELSE IF colorValue.type = "object"
  THEN [executeTransform(colorValue, theme, stack)
          EXCEPT !.calls = <<Resolved(colorValue)>> \o @]
  ELSE Ret(Undefined, <<Resolved(colorValue)>>)

\* Faulty variant of resolveColorValue: a name the context does not hold is
\* returned as it is.
resolveColorValuePassThrough(colorValue, theme, stack) ==
  IF colorValue = Null THEN Ret(Undefined, <<Resolved(colorValue)>>)
  ELSE IF colorValue.type = "string"
  THEN IF isLiteral(colorValue.s) \/ Lookup(theme, colorValue.s) = Undefined
       THEN Ret(colorValue, <<Resolved(colorValue)>>)
       ELSE IF colorValue.s \in stack
       THEN Ret(Throw("RangeError: Maximum call stack size exceeded"),
                <<Resolved(colorValue)>>)
       ELSE [resolveColorValue(Lookup(theme, colorValue.s), theme,
                               stack \cup {colorValue.s})
               EXCEPT !.calls = <<Resolved(colorValue)>> \o @]
  ELSE IF colorValue.type = "object"
  THEN [executeTransform(colorValue, theme, stack)
          EXCEPT !.calls = <<Resolved(colorValue)>> \o @]
  ELSE Ret(Undefined, <<Resolved(colorValue)>>)

\* function resolveColorValue(colorValue, theme)
resolveColorValue(colorValue, theme, stack) ==
  IF colorValue = Null THEN Ret(Undefined, <<Resolved(colorValue)>>)
  ELSE IF colorValue.type = "string"
  THEN IF isLiteral(colorValue.s)
       THEN Ret(colorValue, <<Resolved(colorValue)>>)
       ELSE IF colorValue.s \in stack
       THEN Ret(Throw("RangeError: Maximum call stack size exceeded"),
                <<Resolved(colorValue)>>)
       ELSE [resolveColorValue(Lookup(theme, colorValue.s), theme,
                               stack \cup {colorValue.s})
               EXCEPT !.calls = <<Resolved(colorValue)>> \o @]
  ELSE IF colorValue.type = "object"
  THEN [executeTransform(colorValue, theme, stack)
          EXCEPT !.calls = <<Resolved(colorValue)>> \o @]
  ELSE Ret(Undefined, <<Resolved(colorValue)>>)

\* A top-level call: nothing is on the stack.
resolve(colorValue, theme) == resolveColorValue(colorValue, theme, {})

(***************************************************************************)
(* The kate provider                                                       *)
(***************************************************************************)
KATE_DEFAULT_COLORS ==
  [light |->
     "BackgroundColor" :> "#ffffff" @@ "CodeFolding" :> "#94caef" @@
     "BracketMatching" :> "#ffff00" @@ "CurrentLine" :> "#f8f7f6" @@
     "IconBorder" :> "#f0f0f0" @@ "IndentationLine" :> "#d2d2d2" @@
     "LineNumbers" :> "#a0a0a0" @@ "CurrentLineNumber" :> "#1e1e1e" @@
     "MarkBookmark" :> "#0000ff" @@ "MarkBreakpointActive" :> "#ff0000" @@
     "MarkBreakpointReached" :> "#ffff00" @@ "MarkBreakpointDisabled" :> "#ff00ff" @@
     "MarkExecution" :> "#a0a0a4" @@ "MarkWarning" :> "#00ff00" @@
     "MarkError" :> "#ff0000" @@ "ModifiedLines" :> "#fdbc4b" @@
     "ReplaceHighlight" :> "#00ff00" @@ "SavedLines" :> "#2ecc71" @@
     "SearchHighlight" :> "#ffff00" @@ "TextSelection" :> "#94caef" @@
     "Separator" :> "#d5d5d5" @@ "SpellChecking" :> "#bf0303" @@
     "TabMarker" :> "#d2d2d2" @@ "TemplateBackground" :> "#d6d2d0" @@
     "TemplatePlaceholder" :> "#baf8ce" @@ "TemplateFocusedPlaceholder" :> "#76da98" @@
     "TemplateReadOnlyPlaceholder" :> "#f6e6e6" @@ "WordWrapMarker" :> "#ededed",
   dark |->
     "BackgroundColor" :> "#232629" @@ "CodeFolding" :> "#224e65" @@
     "BracketMatching" :> "#8e44ad" @@ "CurrentLine" :> "#2A2E32" @@
     "IconBorder" :> "#31363b" @@
     "IndentationLine" :> "#3a3f44" @@ "LineNumbers" :> "#7a7c7d" @@
     "CurrentLineNumber" :> "#a5a6a8" @@ "MarkBookmark" :> "#0404bf" @@
     "MarkBreakpointActive" :> "#8b0607" @@ "MarkBreakpointReached" :> "#6d6e07" @@
     "MarkBreakpointDisabled" :> "#820683" @@ "MarkExecution" :> "#4d4e50" @@
     "MarkWarning" :> "#f67400" @@ "MarkError" :> "#da4453" @@
     "ModifiedLines" :> "#c04900" @@ "ReplaceHighlight" :> "#808021" @@
     "SavedLines" :> "#1c8042" @@ "SearchHighlight" :> "#218058" @@
     "TextSelection" :> "#2d5c76" @@ "Separator" :> "#3f4347" @@
     "SpellChecking" :> "#c0392b" @@ "TabMarker" :> "#4d4d4d" @@
     "TemplateBackground" :> "#31363b" @@ "TemplatePlaceholder" :> "#123723" @@
     "TemplateFocusedPlaceholder" :> "#123723" @@ "TemplateReadOnlyPlaceholder" :> "#4d1f24" @@
     "WordWrapMarker" :> "#3a3f44"]

\* Faulty variant of kateGetColor: the resolved colour is returned as it is.
kateGetColorUnrotated(id, colors) ==
  With(resolveColorValue(Str(id), colors, {}).out, LAMBDA color :
    IF color.type = "throw" THEN color
    ELSE IF Falsy(color) THEN Undefined
    ELSE color)

\* function getColor(id) of the kate provider: Qt takes alpha hex colours
\* as AARRGGBB instead of RRGGBBAA.
kateGetColor(id, colors) ==
  With(resolveColorValue(Str(id), colors, {}).out, LAMBDA color :
    IF color.type = "throw" THEN color
    ELSE IF Falsy(color) THEN Undefined
    ELSE IF Len(color.s) = 9
    THEN Str("#" \o SubSeq(color.s, Len(color.s) - 1, Len(color.s))
                 \o SubSeq(color.s, 2, Len(color.s) - 2))
    ELSE color)

\* The "editor-colors" properties computed from VS Code identifiers, in source
\* order; more than one identifier is getColor(a) || getColor(b).
KateEditorColors ==
  << <<"BackgroundColor", <<"editor.background">>>>,
     <<"IndentationLine", <<"editorIndentGuide.background">>>>,
     <<"TextSelection", <<"editor.selectionBackground">>>>,
     <<"LineNumbers", <<"editorLineNumber.foreground">>>>,
     <<"CurrentLineNumber", <<"editorLineNumber.activeForeground">>>>,
     <<"CurrentLine", <<"editor.lineHighlightBackground">>>>,
     <<"SearchHighlight", <<"editor.findMatchHighlightBackground">>>>,
     <<"ReplaceHighlight", <<"editor.findMatchBackground">>>>,
     <<"BracketMatching", <<"editorBracketMatch.background">>>>,
     <<"CodeFolding", <<"editor.foldBackground">>>>,
     <<"SpellChecking", <<"editorError.foreground">>>>,
     <<"ModifiedLines", <<"editorGutter.modifiedBackground",
                          "editorOverviewRuler.modifiedForeground">>>>,
     <<"SavedLines", <<"editorGutter.addedBackground",
                       "editorOverviewRuler.addedForeground">>>>,
     <<"MarkError", <<"editorOverviewRuler.errorForeground">>>>,
     <<"MarkWarning", <<"editorOverviewRuler.warningForeground">>>>,
     <<"MarkBookmark", <<"editorOverviewRuler.infoForeground">>>>,
     <<"WordWrapMarker", <<"editorGutter.foldingControlForeground">>>>,
     <<"IconBorder", <<"editorGutter.background">>>>,
     <<"MarkBreakpointActive", <<"debugIcon.breakpointForeground">>>>,
     <<"MarkBreakpointDisabled", <<"debugIcon.breakpointDisabledForeground">>>>,
     <<"MarkBreakpointReached",
       <<"debugIcon.breakpointCurrentStackframeForeground">>>>,
     <<"Separator", <<"menu.separatorBackground">>>>,
     <<"TabMarker", <<"editorWhitespace.foreground">>>> >>

(***************************************************************************)
(* Plain objects                                                           *)
(***************************************************************************)
EmptyObject == [k \in {} |-> Undefined]

\* obj[key] = value
Put(obj, key, value) ==
  [k \in DOMAIN obj \cup {key} |-> IF k = key THEN value ELSE obj[k]]

\* Faulty variant of Spread: { ...b, ...a }
SpreadReversed(a, b) ==
  [k \in DOMAIN a \cup DOMAIN b |-> IF k \in DOMAIN a THEN a[k] ELSE b[k]]

\* { ...a, ...b }
Spread(a, b) ==
  [k \in DOMAIN a \cup DOMAIN b |-> IF k \in DOMAIN b THEN b[k] ELSE a[k]]

\* JSON.stringify leaves out the properties whose value is undefined.
Stringified(obj) == [k \in {x \in DOMAIN obj : obj[x] # Undefined} |-> obj[k]]

(***************************************************************************)
(* The registry                                                            *)
(***************************************************************************)
\* Faulty variant of registerColor: an identifier that has a default in a
\* variant keeps it.
registerColorOnce(sch, id, defaults) ==
  IF defaults = Null THEN sch
  ELSE [key \in Variants |->
          IF key \in DOMAIN defaults /\ ~Falsy(defaults[key])
             /\ id \notin DOMAIN sch[key]
          THEN Put(sch[key], id, defaults[key])
          ELSE sch[key]]

\* Faulty variant of registerColor: the test "if (!value) continue" is missing.
registerColorStoresNull(sch, id, defaults) ==
  IF defaults = Null THEN sch
  ELSE [key \in Variants |->
          IF key \in DOMAIN defaults
          THEN Put(sch[key], id, defaults[key])
          ELSE sch[key]]

\* Faulty variant of registerColor: every variant supplied gets the value
\* supplied for dark, when there is one.
registerColorFromDark(sch, id, defaults) ==
  IF defaults = Null THEN sch
  ELSE [key \in Variants |->
          IF key \in DOMAIN defaults /\ ~Falsy(defaults[key])
          THEN Put(sch[key], id,
                   IF "dark" \in DOMAIN defaults /\ ~Falsy(defaults.dark)
                   THEN defaults.dark ELSE defaults[key])
          ELSE sch[key]]

\* registerColor(id, defaults, description) on the tables sch: defaults is
\* null or an object holding, for some of the variants, a colour value or null.
registerColor(sch, id, defaults) ==
  IF defaults = Null THEN sch
  ELSE [key \in Variants |->
          IF key \in DOMAIN defaults /\ ~Falsy(defaults[key])
          THEN Put(sch[key], id, defaults[key])
          ELSE sch[key]]

\* History of the registrations: for every variant and every identifier
\* registered so far, what the latest registerColor call supplied for that
\* variant (a colour value, null, or undefined when it supplied nothing).
declare(decl, id, defaults) ==
  IF defaults = Null THEN decl
  ELSE [key \in Variants |->
          Put(decl[key], id,
              IF key \in DOMAIN defaults THEN defaults[key] ELSE Undefined)]

\* Color.fromHex(color).transparent(factor)
fromHexTransparent(color, factor) ==
  Str(toHexString(setAlpha(tinycolor2(color), factor)))

\* registerColor calls of base.ts, in source order (a part of the table).
Registrations ==
  << [id |-> "foreground",
      defaults |-> [dark |-> Str("#CCCCCC"), light |-> Str("#616161"),
                    hcDark |-> Str("#FFFFFF"), hcLight |-> Str("#292929")]],
     [id |-> "descriptionForeground",
      defaults |-> [light |-> Str("#717171"),
                    dark |-> transparent(Str("foreground"), 700),
                    hcDark |-> transparent(Str("foreground"), 700),
                    hcLight |-> transparent(Str("foreground"), 700)]],
     [id |-> "focusBorder",
      defaults |-> [dark |-> Str("#007FD4"), light |-> Str("#0090F1"),
                    hcDark |-> Str("#F38518"), hcLight |-> Str("#0F4A85")]],
     [id |-> "editorWarning.border",
      defaults |-> [dark |-> Null, light |-> Null,
                    hcDark |-> fromHexTransparent("#FFCC00", 800),
                    hcLight |-> Str("#")]],
     [id |-> "editor.background",
      defaults |-> [light |-> Str("#ffffff"), dark |-> Str("#1E1E1E"),
                    hcDark |-> Str("#000000"), hcLight |-> Str("#ffffff")]],
     [id |-> "editor.foreground",
      defaults |-> [light |-> Str("#333333"), dark |-> Str("#BBBBBB"),
                    hcDark |-> Str("#ffffff"), hcLight |-> Str("foreground")]],
     [id |-> "list.activeSelectionBackground",
      defaults |-> [dark |-> Str("#04395E"), light |-> Str("#0060C0"),
                    hcDark |-> Null,
                    hcLight |-> fromHexTransparent("#0F4A85", 100)]],
     [id |-> "list.highlightForeground",
      defaults |-> [dark |-> Str("#2AAAFF"), light |-> Str("#0066BF"),
                    hcDark |-> Str("focusBorder"),
                    hcLight |-> Str("focusBorder")]],
     [id |-> "list.focusHighlightForeground",
      defaults |-> [dark |-> Str("list.highlightForeground"),
                    light |-> ifDefinedThenElse(
                                "list.activeSelectionBackground",
                                Str("list.highlightForeground"),
                                Str("#BBE7FF")),
                    hcDark |-> Str("list.highlightForeground"),
                    hcLight |-> Str("list.highlightForeground")]],
     [id |-> "quickInput.list.focusBackground",
      defaults |-> [dark |-> Null, light |-> Null,
                    hcDark |-> Null, hcLight |-> Null]],
     [id |-> "quickInputList.focusBackground",
      defaults |-> [dark |-> oneOf(<<Str("quickInput.list.focusBackground"),
                                     Str("list.activeSelectionBackground")>>),
                    light |-> oneOf(<<Str("quickInput.list.focusBackground"),
                                      Str("list.activeSelectionBackground")>>),
                    hcDark |-> Null, hcLight |-> Null]],
     [id |-> "breadcrumb.focusForeground",
      defaults |-> [light |-> darken(Str("foreground"), 200),
                    dark |-> lighten(Str("foreground"), 100),
                    hcDark |-> lighten(Str("foreground"), 100),
                    hcLight |-> lighten(Str("foreground"), 100)]],
     [id |-> "editorWhitespace.foreground",
      defaults |-> [dark |-> Str("#e3e4e229"), light |-> Str("#33333333"),
                    hcDark |-> Str("#e3e4e229"), hcLight |-> Str("#CCCCCC")]],
     [id |-> "editorGutter.background",
      defaults |-> [dark |-> Str("editor.background"),
                    light |-> Str("editor.background"),
                    hcDark |-> Str("editor.background"),
                    hcLight |-> Str("editor.background")]] >>

\* export const schemes = { dark: {}, hcDark: {}, hcLight: {}, light: {} }
EmptySchemes == [key \in Variants |-> EmptyObject]

RECURSIVE registerAll(_, _, _), declareAll(_, _, _)

\* The tables once the module has run its first n registrations.
registerAll(sch, regs, n) ==
  IF n = 0 THEN sch
  ELSE registerColor(registerAll(sch, regs, n - 1), regs[n].id, regs[n].defaults)

declareAll(decl, regs, n) ==
  IF n = 0 THEN decl
  ELSE declare(declareAll(decl, regs, n - 1), regs[n].id, regs[n].defaults)

(***************************************************************************)
(* Token rules and text styles.  A rule of theme.tokenColors is            *)
(* [scope, settings]: scope is a string, an array of strings                *)
(* ([type |-> "array", items |-> <<...>>]) or undefined; settings is a      *)
(* plain object.                                                           *)
(***************************************************************************)
True == [type |-> "boolean", b |-> TRUE]

Array(items) == [type |-> "array", items |-> items]

\* matchText.indexOf(sub), counted from 1; 0 when sub does not occur.
indexOf(s, sub) ==
  LET at == {i \in 1..(Len(s) - Len(sub) + 1) :
               SubSeq(s, i, i + Len(sub) - 1) = sub}
  IN IF at = {} THEN 0 ELSE CHOOSE i \in at : \A j \in at : i <= j

\* Faulty variant of matchScope: a scope below the text before ".*" matches
\* a wildcard too.
matchScopePrefix(scopes, matchText) ==
  LET arrayScopes == IF scopes.type = "string" THEN <<scopes.s>>
                     ELSE IF scopes.type = "array" THEN scopes.items
                     ELSE <<>>
      isWildcard == indexOf(matchText, ".*") # 0
      exceptWildcard == IF isWildcard
                        THEN SubSeq(matchText, 1, indexOf(matchText, ".*") - 1)
                        ELSE matchText
  IN IF \E i \in DOMAIN arrayScopes :
          \/ arrayScopes[i] = matchText
          \/ arrayScopes[i] = exceptWildcard
          \/ /\ isWildcard
             /\ Len(arrayScopes[i]) > Len(exceptWildcard)
             /\ SubSeq(arrayScopes[i], 1, Len(exceptWildcard) + 1)
                  = exceptWildcard \o "."
     THEN True ELSE Undefined

\* matchScope(scopes, matchText) of utils.ts: true when a scope is matchText
\* or the text before its first ".*"; no return statement is reached
\* otherwise.
matchScope(scopes, matchText) ==
  LET arrayScopes == IF scopes.type = "string" THEN <<scopes.s>>
                     ELSE IF scopes.type = "array" THEN scopes.items
                     ELSE <<>>
      isWildcard == indexOf(matchText, ".*") # 0
      exceptWildcard == IF isWildcard
                        THEN SubSeq(matchText, 1, indexOf(matchText, ".*") - 1)
                        ELSE matchText
  IN IF \E i \in DOMAIN arrayScopes :
          arrayScopes[i] = matchText \/ arrayScopes[i] = exceptWildcard
     THEN True ELSE Undefined

\* Faulty variant of findStyle: the last matching rule is taken.
findLastStyle(tokenColors, id) ==
  LET matching == {i \in DOMAIN tokenColors :
                     matchScope(tokenColors[i].scope, id) = True}
  IN IF matching = {} THEN Undefined
     ELSE tokenColors[CHOOSE i \in matching : \A j \in matching : i >= j]

\* theme.tokenColors.find((a) => matchScope(a.scope, id))
findStyle(tokenColors, id) ==
  LET matching == {i \in DOMAIN tokenColors :
                     matchScope(tokenColors[i].scope, id) = True}
  IN IF matching = {} THEN Undefined
     ELSE tokenColors[CHOOSE i \in matching : \A j \in matching : i <= j]

\* a || b of two values that are not exceptions
Or(a, b) == IF Falsy(a) THEN b ELSE a

\* The object toKateStyle returns for the rule it found.  Its properties
\* "text-color" and "selected-text-color" are the fields textColor and
\* selectedTextColor.
kateStyle(style) ==
  LET settings == style.settings
      isBold == Or(Lookup(settings, "bold"),
                   IF Lookup(settings, "fontStyle") = Str("bold")
                   THEN True ELSE Undefined)
      isItalic == Or(Lookup(settings, "italic"),
                     IF Lookup(settings, "fontStyle") = Str("italic")
                     THEN True ELSE Undefined)
      isUnderline == Or(Lookup(settings, "underline"),
                        IF Lookup(settings, "fontStyle") = Str("underline")
                        THEN True ELSE Undefined)
  IN [type |-> "object",
      textColor |-> Lookup(settings, "foreground"),
      selectedTextColor |-> Lookup(settings, "foreground"),
      bold |-> isBold, italic |-> isItalic, underline |-> isUnderline]

RECURSIVE toKateStyle(_, _)

\* function toKateStyle(id) of the kate provider
toKateStyle(tokenColors, id) ==
  With(findStyle(tokenColors, id), LAMBDA style :
    IF style = Undefined /\ id # "variable"
    THEN toKateStyle(tokenColors, "variable")
    ELSE IF style = Undefined THEN Undefined
    ELSE kateStyle(style))

RECURSIVE kateFirstStyle(_, _, _)

\* toKateStyle(ids[i]) || toKateStyle(ids[i + 1]) || ...
kateFirstStyle(ids, i, tokenColors) ==
  With(toKateStyle(tokenColors, ids[i]), LAMBDA style :
    IF i = Len(ids) \/ style # Undefined THEN style
    ELSE kateFirstStyle(ids, i + 1, tokenColors))

\* The "text-styles" properties computed by toKateStyle, in source order.
KateTextStyles ==
  << <<"Normal", <<"variable">>>>,
     <<"Others", <<"variable">>>>,
     <<"Comment", <<"comment">>>>,
     <<"Keyword", <<"keyword">>>>,
     <<"ControlFlow", <<"keyword.control", "keyword">>>>,
     <<"Function", <<"entity.name.function">>>>,
     <<"String", <<"string">>>>,
     <<"VerbatimString", <<"markup.raw">>>>,
     <<"SpecialString", <<"string.regexp">>>>,
     <<"SpecialChar", <<"constant.character.escape", "constant.character">>>>,
     <<"Char", <<"constant.character">>>>,
     <<"Import", <<"keyword.control", "keyword">>>>,
     <<"Constant", <<"variable.other.constant">>>>,
     <<"Float", <<"constant.numeric">>>>,
     <<"DecVal", <<"constant.numeric">>>>,
     <<"BaseN", <<"constant.numeric">>>>,
     <<"DataType", <<"support.type">>>>,
     <<"Operator", <<"keyword.operator.*", "keyword">>>>,
     <<"Variable", <<"variable">>>>,
     <<"BuiltIn", <<"variable">>>>,
     <<"Extension", <<"support.class">>>>,
     <<"Preprocessor", <<"meta.preprocessor">>>>,
     <<"Attribute", <<"variable">>>>,
     <<"Error", <<"invalid">>>>,
     <<"Annotation", <<"keyword">>>>,
     <<"Warning", <<"keyword">>>>,
     <<"CommentVar", <<"variable">>>>,
     <<"Documentation", <<"comment.block.documentation", "comment.*">>>> >>

\* The "custom-styles" object: language, style name, scope.
KateCustomStyles ==
  << <<"TypeScript", "Objects", "variable.other.constant">>,
     <<"JavaScript", "Objects", "variable.other.constant">>,
     <<"TypeScript React (TSX)", "Component Tag", "support.class">>,
     <<"TypeScript React (TSX)", "Attribute", "entity.other.attribute-name">>,
     <<"JavaScript React (JSX)", "Component Tag", "support.class">>,
     <<"JavaScript React (JSX)", "Attribute", "entity.other.attribute-name">>,
     <<"YAML", "Key", "entity.name.tag">>,
     <<"YAML", "Attribute", "string.unquoted.plain.out.yaml">>,
     <<"YAML", "Literal/Folded Block", "string.unquoted.block.yaml">> >>

\* Information, and Alert or RegionMarker on the colour of comments.
KateInformation ==
  [type |-> "object", selectedTextColor |-> Str("#6a737d"),
   textColor |-> Str("#6a737d")]

kateMarker(tokenColors) ==
  With(toKateStyle(tokenColors, "comment"), LAMBDA comment :
    [type |-> "object",
     backgroundColor |-> IF comment = Undefined THEN Undefined
                         ELSE comment.textColor,
     textColor |-> Str("#ffffff"), selectedTextColor |-> Str("#ffffff")])

\* JSON.stringify of an object of text styles: a style that is undefined is
\* left out, and so is a property of a style that is undefined.
StringifiedStyles(styles) ==
  [k \in {x \in DOMAIN styles : styles[x] # Undefined} |->
     Stringified([p \in DOMAIN styles[k] \ {"type"} |-> styles[k][p]])]

\* The "text-styles" object
kateTextStyles(tokenColors) ==
  With([i \in 1..Len(KateTextStyles) |->
          kateFirstStyle(KateTextStyles[i][2], 1, tokenColors)], LAMBDA vals :
    [k \in {KateTextStyles[i][1] : i \in DOMAIN vals}
             \cup {"Information", "Alert", "RegionMarker"} |->
       IF k = "Information" THEN KateInformation
       ELSE IF k \in {"Alert", "RegionMarker"} THEN kateMarker(tokenColors)
       ELSE vals[CHOOSE i \in DOMAIN vals : KateTextStyles[i][1] = k]])

\* The "custom-styles" object
kateCustomStyles(tokenColors) ==
  [language \in {KateCustomStyles[i][1] : i \in DOMAIN KateCustomStyles} |->
     StringifiedStyles(
       [name \in {KateCustomStyles[i][2] :
                    i \in {x \in DOMAIN KateCustomStyles :
                             KateCustomStyles[x][1] = language}} |->
          toKateStyle(tokenColors,
            KateCustomStyles[CHOOSE i \in DOMAIN KateCustomStyles :
                               /\ KateCustomStyles[i][1] = language
                               /\ KateCustomStyles[i][2] = name][3])])]

(***************************************************************************)
(* Conversions                                                             *)
(***************************************************************************)
\* const baseTheme = schemes[theme.type || "light"];
\* const themeColors = { ...baseTheme, ...theme.colors };
overlay(sch, theme) ==
  LET type == IF Falsy(theme.type) THEN "light" ELSE theme.type.s
      baseTheme == IF type \in DOMAIN sch THEN sch[type] ELSE EmptyObject
  IN Spread(baseTheme, theme.colors)

RECURSIVE kateFirstColor(_, _, _), docgenFirstColor(_, _, _)

\* getColor(ids[i]) || getColor(ids[i + 1]) || ...
kateFirstColor(ids, i, colors) ==
  With(kateGetColor(ids[i], colors), LAMBDA c :
    IF i = Len(ids) \/ c.type = "throw" \/ ~Falsy(c) THEN c
    ELSE kateFirstColor(ids, i + 1, colors))

\* The value a conversion returns when its property values are vals (in
\* evaluation order): the first exception thrown, or else the document.
Completed(vals, document) ==
  IF \E i \in DOMAIN vals : vals[i].type = "throw"
  THEN vals[CHOOSE i \in DOMAIN vals :
              /\ vals[i].type = "throw"
              /\ \A j \in 1..(i - 1) : vals[j].type # "throw"]
  ELSE document

\* Faulty variant of kateEditorColors: a computed property that is undefined
\* leaves the default of its key in place.
kateEditorColorsOverDefaults(defaultKateTheme, vals) ==
  [k \in DOMAIN defaultKateTheme
           \cup {KateEditorColors[i][1] : i \in DOMAIN vals} |->
     IF \E i \in DOMAIN vals :
          KateEditorColors[i][1] = k
            /\ (vals[i] # Undefined \/ k \notin DOMAIN defaultKateTheme)
     THEN vals[CHOOSE i \in DOMAIN vals : KateEditorColors[i][1] = k]
     ELSE Str(defaultKateTheme[k])]

\* The "editor-colors" object: { ...defaultKateTheme, <the computed ones> }
kateEditorColors(defaultKateTheme, vals) ==
  [k \in DOMAIN defaultKateTheme
           \cup {KateEditorColors[i][1] : i \in DOMAIN vals} |->
     IF \E i \in DOMAIN vals : KateEditorColors[i][1] = k
     THEN vals[CHOOSE i \in DOMAIN vals : KateEditorColors[i][1] = k]
     ELSE Str(defaultKateTheme[k])]

\* The body of convert(theme) of the kate provider below the overlay: the
\* writes of the call (the tables, the overlay it resolves against) and the
\* JSON document it returns.
kateRender(sch, colors, theme) ==
    With([i \in 1..Len(KateEditorColors) |->
            kateFirstColor(KateEditorColors[i][2], 1, colors)], LAMBDA vals :
      [schemes |-> sch,
       themeColors |-> colors,
       result |->
         Completed(vals,
           [type |-> "document",
            metadata |-> [name |-> theme.name, revision |-> 1],
            editorColors |->
              With(kateEditorColors(
                     IF theme.type = Str("dark") THEN KATE_DEFAULT_COLORS.dark
                     ELSE KATE_DEFAULT_COLORS.light, vals),
                   LAMBDA obj : Stringified(obj)),
            textStyles |->
              StringifiedStyles(kateTextStyles(theme.tokenColors)),
            customStyles |-> kateCustomStyles(theme.tokenColors)])])

\* Faulty variant of kateConvert: Object.assign(baseTheme, theme.colors), the
\* overlay is written into the registry table.
kateConvertInPlace(sch, theme) ==
  With(overlay(sch, theme), LAMBDA colors :
    kateRender([key \in Variants |->
                  IF key = (IF Falsy(theme.type) THEN "light" ELSE theme.type.s)
                  THEN colors ELSE sch[key]],
               colors, theme))

\* convert(theme) of the kate provider
kateConvert(sch, theme) ==
  With(overlay(sch, theme), LAMBDA colors : kateRender(sch, colors, theme))

\* function getColor(id) of the docgen provider
docgenGetColor(id, colors) == resolveColorValue(Str(id), colors, {}).out

docgenFirstColor(ids, i, colors) ==
  With(docgenGetColor(ids[i], colors), LAMBDA c :
    IF i = Len(ids) \/ c.type = "throw" \/ ~Falsy(c) THEN c
    ELSE docgenFirstColor(ids, i + 1, colors))

PrimaryIds == <<"tab.activeBorder", "focusBorder", "statusBar.background">>

\* The CSS variables of doctaveTheme, in source order: the identifiers tried
\* and the literal that ends the || chain, if any.
DocgenVariables ==
  << <<"--primary", PrimaryIds, Undefined>>,
     <<"--page-bg", <<"editorWidget.background">>, Undefined>>,
     <<"--document-bg", <<"editor.background">>, Undefined>>,
     <<"--document-fg", <<"editor.foreground">>, Undefined>>,
     <<"--heading", <<"editor.foreground">>, Undefined>>,
     <<"--paragraph", <<"editor.foreground">>, Undefined>>,
     <<"--link", <<"textLink.foreground">>, Undefined>>,
     <<"--code-bg", <<"textCodeBlock.background">>, Undefined>>,
     <<"--code-fg", <<"editor.foreground">>, Undefined>>,
     <<"--blockquote-bg", <<"textBlockQuote.background">>, Undefined>>,
     <<"--blockquote-fg", <<"textBlockQuote.foreground">>, Undefined>>,
     <<"--blockquote-border", <<"textBlockQuote.border">>, Undefined>>,
     <<"--input-bg", <<"input.background">>, Str("transparent")>>,
     <<"--input-fg", <<"input.foreground", "editor.foreground">>, Undefined>>,
     <<"--input-border", <<"input.border", "focusBorder">>, Str("transparent")>>,
     <<"--input-placeholder", <<"input.placeholderForeground">>, Undefined>>,
     <<"--hr", <<"menu.separatorBackground">>, Undefined>>,
     <<"--hover-fg", <<"">>, Undefined>>,
     <<"--hover-bg", <<"">>, Undefined>>,
     <<"--active-fg", <<"">>, Undefined>>,
     <<"--active-bg", <<"">>, Undefined>>,
     <<"--focus-fg", <<"">>, Undefined>>,
     <<"--focus-bg", <<"">>, Undefined>>,
     <<"--selection-bg", <<"selection.background",
                           "editor.selectionBackground">>, Undefined>>,
     <<"--hover-color", <<"">>, Undefined>>,
     <<"--header-fg", PrimaryIds, Undefined>>,
     <<"--border-color", <<"input.border", "dropdown.border">>, Undefined>>,
     <<"--fg", <<"editor.foreground">>, Undefined>>,
     <<"--fg-dim", <<"editorHint.foreground">>, Undefined>>,
     <<"--fg-dimmer", <<"editorCodeLens.foreground">>, Undefined>> >>

RECURSIVE replaceDotDigits(_, _), joined(_, _)

\* scope.replace(/\.(\d+)/g, "_$1"), from character i on: a dot that digits
\* follow becomes an underscore.
replaceDotDigits(scope, i) ==
  IF i > Len(scope) THEN ""
  ELSE (IF /\ CharAt(scope, i) = "."
           /\ i < Len(scope)
           /\ indexOf("0123456789", CharAt(scope, i + 1)) # 0
        THEN "_" ELSE CharAt(scope, i))
         \o replaceDotDigits(scope, i + 1)

\* items.join(separator)
joined(items, separator) ==
  IF Len(items) = 0 THEN ""
  ELSE IF Len(items) = 1 THEN items[1]
  ELSE items[1] \o separator \o joined(Tail(items), separator)

\* The order in which for (const key in color.settings) visits the keys.
SettingsKeys == <<"foreground", "fontStyle", "bold", "italic", "underline">>

\* The declaration a key of color.settings adds to the rule, if any.
codeblockProperty(key, value) ==
  LET tag == IF key = "fontStyle" /\ value.type = "string" THEN value.s ELSE key
  IN IF Falsy(value) THEN <<>>
     ELSE IF tag = "foreground" THEN <<"color: " \o value.s \o ";">>
     ELSE IF tag = "bold" THEN <<"font-weight: bold;">>
     ELSE IF tag = "italic" THEN <<"font-style: italic;">>
     ELSE IF tag = "underline" THEN <<"text-decoration-line: underline;">>
     ELSE <<>>

RECURSIVE codeblockProperties(_, _)

codeblockProperties(settings, i) ==
  IF i > Len(SettingsKeys) THEN <<>>
  ELSE codeblockProperty(SettingsKeys[i], Lookup(settings, SettingsKeys[i]))
         \o codeblockProperties(settings, i + 1)

\* The CSS rule of one token rule; scopes.map throws when the rule has no
\* scope.
codeblockRule(type, color) ==
  IF color.scope.type \notin {"string", "array"}
  THEN Throw("TypeError: Cannot read properties of undefined (reading 'map')")
  ELSE LET scopes == IF color.scope.type = "string" THEN <<color.scope.s>>
                     ELSE color.scope.items
       IN [type |-> "rule",
           selector |->
             joined([i \in 1..Len(scopes) |->
                       "html." \o type \o " pre ."
                         \o replaceDotDigits(scopes[i], 1)], ","),
           properties |-> codeblockProperties(color.settings, 1)]

\* convert(theme) of the docgen provider: the html.<type> block holds the
\* variables whose value is truthy, and codeblockCss one rule per token rule.
docgenConvert(sch, theme) ==
  With(overlay(sch, theme), LAMBDA colors :
    With([i \in 1..Len(DocgenVariables) |->
            With(docgenFirstColor(DocgenVariables[i][2], 1, colors), LAMBDA c :
              IF c.type = "throw" \/ ~Falsy(c) THEN c
              ELSE DocgenVariables[i][3])], LAMBDA vals :
     With([i \in 1..Len(theme.tokenColors) |->
             codeblockRule(IF Falsy(theme.type) THEN "light" ELSE theme.type.s,
                           theme.tokenColors[i])], LAMBDA codeblockCss :
      [schemes |-> sch,
       themeColors |-> colors,
       result |->
         Completed(vals \o codeblockCss,
           [type |-> "document",
            name |-> theme.name,
            selector |-> "html." \o (IF Falsy(theme.type) THEN "light"
                                     ELSE theme.type.s),
            variables |->
              [k \in {DocgenVariables[i][1] :
                        i \in {x \in DOMAIN vals : ~Falsy(vals[x])}} |->
                 vals[CHOOSE i \in DOMAIN vals : DocgenVariables[i][1] = k]],
            codeblockCss |-> codeblockCss])])))

(***************************************************************************)
(* Inputs                                                                  *)
(***************************************************************************)
\* Longest reference chain among the lookup contexts.
MaxChain == 3

\* A token rule: { scope, settings: { foreground } }
Rule(scope, foreground) ==
  [scope |-> Str(scope), settings |-> [foreground |-> Str(foreground)]]

\* A token rule with font settings.
FontRule(scope, settings) == [scope |-> scope, settings |-> settings]

\* Longest candidate list of a OneOf transform.
MaxCandidates == 2

\* Number of registerColor calls a module initialisation makes.
MaxRegistrations == 2

Digits == "0123456789"

\* The identifier of the n-th link of a reference chain.
Link(n) == "link" \o CharAt(Digits, n + 1)

\* link0 -> "#112233" and link(k) -> "link(k-1)" for k in 1..n.
ChainContext(n) ==
  [k \in {Link(i) : i \in 0..n} |->
     IF k = Link(0) THEN Str("#112233")
     ELSE Str(Link((CHOOSE i \in 1..n : Link(i) = k) - 1))]

\* A -> "B", B -> "A"
CycleContext == ("A" :> Str("B")) @@ ("B" :> Str("A"))

\* A context that has a key equal to a literal.
LiteralKeyContext == ("#112233" :> Str("#ffffff")) @@ ("A" :> Str("#112233"))

ThemeColors ==
  { EmptyObject,
    ("editor.background" :> Str("#000000")) @@ ("my.color" :> Str("#12345678")),
    ("foreground" :> Str("#ffffff")) @@ ("editorWarning.border" :> Str("#xyz"))
      @@ ("editor.selectionBackground" :> Str("#abcd")),
    ("editor.background" :> Str("editorGutter.background")) }

Themes ==
  [type : {Str(v) : v \in Variants} \cup {Undefined},
   name : {"Theme"},
   colors : ThemeColors,
   tokenColors : {<<Rule("comment", "#008000"),
                    FontRule(Array(<<"keyword", "storage.type.1">>),
                             [foreground |-> Str("#0000ff"),
                              fontStyle |-> Str("bold")])>>}]

Sequences(S, n) == UNION {[1..k -> S] : k \in 0..n}

Candidates == {Str("missingId"), Str("#ff0000"), Str("A")}

\* Objects whose op is none of the six tags: another tag, and no tag.
InvalidTransforms ==
  {[type |-> "object", op |-> "Mix", value |-> Str("#000000"), factor |-> 500],
   [type |-> "object", value |-> Str("#000000"), factor |-> 500]}

Transforms ==
  {oneOf(values) : values \in Sequences(Candidates, MaxCandidates)}
    \cup InvalidTransforms
    \cup {darken(Str("foreground"), 200), darken(Str("missingId"), 200),
          lighten(Str("#000000"), 500), lighten(Str("A"), 100),
          transparent(Str("#000000"), 500), transparent(Null, 500),
          ifDefinedThenElse("missingId", Str("#fff"), Str("#000")),
          lessProminent(Str("#333333"), Str("#ffffff"), 300, 600),
          lessProminent(Str("#333333"), Str("#ffffff"), 100, 600),
          lessProminent(Str("#333333"), Str("#ffffff"), 0, 600),
          lessProminent(Str("#ffffff"), Str("#333333"), 300, 600),
          lessProminent(Str("#333333"), Str("#333333"), 300, 600),
          lessProminent(Str("#000000"), Str("#000000"), 300, 600),
          lessProminent(Str("foreground"), Str("missingId"), 300, 600),
          lessProminent(Str("missingId"), Str("#ffffff"), 300, 600)}

Identifiers ==
  {Registrations[i].id : i \in DOMAIN Registrations}
    \cup {Link(i) : i \in 0..MaxChain}
    \cup {"A", "B", "", "missingId", "my.color", "__proto__", "constructor"}

ColorValues ==
  {Null, Str("#112233"), Str("#"), Str("#ff0000")}
    \cup {Str(id) : id \in Identifiers} \cup Transforms

\* The contexts a caller of the resolver passes: a registry table, a table
\* overlaid with a theme's colours, or an object of its own.
Contexts ==
  {schemes[v] : v \in Variants}
    \cup {Spread(schemes.dark, colors) : colors \in ThemeColors}
    \cup {ChainContext(MaxChain), CycleContext, LiteralKeyContext}

RegisteredIds == {"foreground", "editor.background"}

RegisteredValues == {Null, Str("#111111"), Str("#222222")}

\* The defaults objects handed to registerColor: null, an object that names
\* one variant, or one that names all four.
RegisteredDefaults ==
  {Null}
    \cup {("dark" :> a) : a \in RegisteredValues}
    \cup {[dark |-> a, light |-> b, hcDark |-> Null, hcLight |-> Str("#111111")] :
            a \in RegisteredValues, b \in RegisteredValues}

(***************************************************************************)
(* The state machine                                                       *)
(***************************************************************************)
NoCall == [fn |-> "none"]

NoOutput == [provider |-> "none"]

\* No call is in progress.
Idle == call = NoCall /\ output = NoOutput

\* The module has been loaded: the tables hold the registered defaults.
Init ==
  /\ schemes = registerAll(EmptySchemes, Registrations, Len(Registrations))
  /\ declared = declareAll(EmptySchemes, Registrations, Len(Registrations))
  /\ registrations = Len(Registrations)
  /\ themeColors = EmptyObject
  /\ call = NoCall
  /\ output = NoOutput
  /\ earlier = EmptyObject
  /\ seen = NoCall

\* A call of the exported resolveColorValue(colorValue, theme).  The call
\* record keeps the arguments and the outcome.
ResolveColorValue(colorValue, theme) ==
  /\ Idle
  /\ \E r \in {resolveColorValue(colorValue, theme, {})} :
     /\ call' = [fn |-> "resolveColorValue", colorValue |-> colorValue,
                 theme |-> theme,
                 out |-> r.out, calls |-> r.calls]
     /\ UNCHANGED <<schemes, registrations, declared, themeColors, output,
                     earlier, seen>>

\* A call of the exported executeTransform(transform, theme).
ExecuteTransform(transform, theme) ==
  /\ Idle
  /\ \E r \in {executeTransform(transform, theme, {})} :
     /\ call' = [fn |-> "executeTransform", colorValue |-> transform,
                 theme |-> theme,
                 out |-> r.out, calls |-> r.calls]
     /\ UNCHANGED <<schemes, registrations, declared, themeColors, output,
                     earlier, seen>>

\* A conversion by the kate provider.
KateConvert(theme) ==
  /\ Idle
  /\ \E e \in {kateConvert(schemes, theme)} :
     /\ schemes' = e.schemes
     /\ themeColors' = e.themeColors
     /\ output' = [provider |-> "kate", theme |-> theme, before |-> schemes,
                   result |-> e.result]
     /\ UNCHANGED <<registrations, declared, call, earlier, seen>>

\* A conversion by the docgen provider.
DocgenConvert(theme) ==
  /\ Idle
  /\ \E e \in {docgenConvert(schemes, theme)} :
     /\ schemes' = e.schemes
     /\ themeColors' = e.themeColors
     /\ output' = [provider |-> "docgen", theme |-> theme, before |-> schemes,
                   result |-> e.result]
     /\ UNCHANGED <<registrations, declared, call, earlier, seen>>

\* The call returns: its arguments, locals and result are dropped.  Only the
\* tables outlive a call.
Return ==
  /\ ~Idle
  /\ call' = NoCall
  /\ output' = NoOutput
  /\ themeColors' = EmptyObject
  /\ earlier' = IF output = NoOutput THEN earlier ELSE output.theme.colors
  /\ UNCHANGED <<schemes, registrations, declared, seen>>

Next ==
  \/ \E colorValue \in ColorValues, theme \in Contexts :
       ResolveColorValue(colorValue, theme)
  \/ \E transform \in Transforms, theme \in Contexts :
       ExecuteTransform(transform, theme)
  \/ \E theme \in Themes : KateConvert(theme)
  \/ \E theme \in Themes : DocgenConvert(theme)
  \/ Return

Spec == Init /\ [][Next]_vars

(***************************************************************************)
(* Module initialisation: the registerColor calls, one at a time, with     *)
(* resolutions against the tables as they stand.                           *)
(***************************************************************************)
RegInit ==
  /\ schemes = EmptySchemes
  /\ declared = EmptySchemes
  /\ registrations = 0
  /\ themeColors = EmptyObject
  /\ call = NoCall
  /\ output = NoOutput
  /\ earlier = EmptyObject
  /\ seen = NoCall

RegisterColor(id, defaults) ==
  /\ Idle
  /\ registrations < MaxRegistrations
  /\ schemes' = registerColor(schemes, id, defaults)
  /\ declared' = declare(declared, id, defaults)
  /\ call' = [fn |-> "registerColor", id |-> id, defaults |-> defaults,
              before |-> schemes]
  /\ registrations' = registrations + 1
  /\ UNCHANGED <<themeColors, output, earlier, seen>>

RegNext ==
  \/ \E id \in RegisteredIds, defaults \in RegisteredDefaults :
       RegisterColor(id, defaults)
  \/ \E id \in RegisteredIds \cup {"missingId"}, v \in Variants :
       ResolveColorValue(Str(id), schemes[v])
  \/ Return

RegSpec == RegInit /\ [][RegNext]_vars

(***************************************************************************)
(* The loader: downloadTheme reads the theme files a package contributes   *)
(* and merges the theme each one includes.  A path is the sequence of its  *)
(* segments; the package is a function from paths to parsed JSON files.    *)
(***************************************************************************)
\* dirname(path) of the path module
dirname(path) == SubSeq(path, 1, Len(path) - 1)

RECURSIVE join(_, _)

\* join(dir, relative) of the path module: "." stays, ".." goes up.
join(dir, relative) ==
  IF relative = <<>> THEN dir
  ELSE join(IF Head(relative) = "." THEN dir
            ELSE IF Head(relative) = ".." THEN dirname(dir)
            ELSE Append(dir, Head(relative)),
            Tail(relative))

\* Faulty variant of loadTheme: the included theme is spread last and its
\* rules come first.
loadThemeBaseFirst(vsix, packageJsonPath, theme) ==
  LET themePath == join(dirname(packageJsonPath), theme.path)
      parsed == vsix[themePath]
      vscodeTheme ==
        IF Falsy(parsed.type) /\ ~Falsy(theme.uiTheme)
        THEN [parsed EXCEPT !.type = IF theme.uiTheme = Str("vs-dark")
                                     THEN Str("dark") ELSE Str("light")]
        ELSE parsed
  IN IF "include" \in DOMAIN vscodeTheme
     THEN LET includedTheme ==
                vsix[join(dirname(themePath), vscodeTheme.include)]
          IN [vscodeTheme EXCEPT
                !.colors = Spread(@, includedTheme.colors),
                !.tokenColors = includedTheme.tokenColors \o @]
     ELSE vscodeTheme

\* The body of the loop over contributes.themes: the theme file is parsed,
\* its type defaults to the one the package declares, and the theme it
\* includes is merged into it.
loadTheme(vsix, packageJsonPath, theme) ==
  LET themePath == join(dirname(packageJsonPath), theme.path)
      parsed == vsix[themePath]
      vscodeTheme ==
        IF Falsy(parsed.type) /\ ~Falsy(theme.uiTheme)
        THEN [parsed EXCEPT !.type = IF theme.uiTheme = Str("vs-dark")
                                     THEN Str("dark") ELSE Str("light")]
        ELSE parsed
  IN IF "include" \in DOMAIN vscodeTheme
     THEN LET includedTheme ==
                vsix[join(dirname(themePath), vscodeTheme.include)]
          IN [vscodeTheme EXCEPT
                !.colors = Spread(includedTheme.colors, @),
                !.tokenColors = @ \o includedTheme.tokenColors]
     ELSE vscodeTheme

\* downloadTheme, from the parsed package.json on: undefined when the package
\* contributes no theme, else the list of the loaded themes.
downloadTheme(vsix, packageJsonPath, themes) ==
  IF Len(themes) = 0 THEN Undefined
  ELSE [i \in 1..Len(themes) |-> loadTheme(vsix, packageJsonPath, themes[i])]

\* Most themes a package contributes.
MaxThemes == 2

\* Most token rules of the derived theme.
MaxRules == 2

PackageJsonPath == <<"extension", "package.json">>

DerivedPath == <<"extension", "themes", "derived.json">>

BasePath == <<"extension", "themes", "base.json">>

RootPath == <<"extension", "root.json">>

RootTheme ==
  [type |-> Str("dark"), name |-> "Root",
   colors |-> ("my.color" :> Str("#12345678")) @@ ("foreground" :> Str("#010101")),
   tokenColors |-> <<Rule("keyword", "#0000ff")>>]

BaseTheme ==
  [type |-> Str("dark"), name |-> "Base",
   colors |-> ("editor.background" :> Str("#111111"))
                @@ ("foreground" :> Str("#eeeeee")),
   tokenColors |-> <<Rule("comment", "#008000"), Rule("string", "#a31515")>>]

\* The base theme, alone or including a theme of its own.
BaseThemes ==
  {BaseTheme,
   [type |-> BaseTheme.type, name |-> BaseTheme.name,
    colors |-> BaseTheme.colors, tokenColors |-> BaseTheme.tokenColors,
    include |-> <<"..", "root.json">>]}

DerivedThemes ==
  [type : {Undefined, Str("light")},
   name : {"Derived"},
   colors : {EmptyObject,
             "editor.background" :> Str("#000000"),
             "my.color" :> Str("#abcdef")},
   tokenColors : UNION {[1..n -> {Rule("variable", "#001080"),
                                  Rule("comment", "#6a9955")}] :
                          n \in 0..MaxRules},
   include : {<<".", "base.json">>}]

Packages ==
  {(DerivedPath :> derived) @@ (BasePath :> base) @@ (RootPath :> RootTheme) :
     derived \in DerivedThemes, base \in BaseThemes}

\* contributes.themes of package.json
Contributed ==
  UNION {[1..n -> [path : {<<".", "themes", "derived.json">>,
                           <<".", "themes", "base.json">>},
                   uiTheme : {Str("vs-dark"), Undefined}]] :
           n \in 0..MaxThemes}

\* A call of downloadTheme, from the unzipped package on.
DownloadTheme(vsix, themes) ==
  /\ Idle
  /\ call' = [fn |-> "downloadTheme", vsix |-> vsix, themes |-> themes,
              out |-> downloadTheme(vsix, PackageJsonPath, themes)]
  /\ UNCHANGED <<schemes, registrations, declared, themeColors, output,
                  earlier, seen>>

LoadNext ==
  \/ \E vsix \in Packages, themes \in Contributed : DownloadTheme(vsix, themes)
  \/ Return

LoadSpec == Init /\ [][LoadNext]_vars

(***************************************************************************)
(* Repeated resolutions: the same calls made again, with conversions in    *)
(* between.  The first resolver call that returns is kept for comparison.  *)
(***************************************************************************)
RepeatedValues ==
  {Str("editor.background"), Str("foreground"), Str("A"),
   darken(Str("foreground"), 200),
   oneOf(<<Str("missingId"), Str("#ff0000")>>)}

RepeatedContexts == {schemes.dark, schemes.light, CycleContext}

\* A call returns, as in Return; the first resolver call is remembered.
Remember ==
  /\ ~Idle
  /\ call' = NoCall
  /\ output' = NoOutput
  /\ themeColors' = EmptyObject
  /\ earlier' = IF output = NoOutput THEN earlier ELSE output.theme.colors
  /\ seen' = IF seen = NoCall /\ call # NoCall THEN call ELSE seen
  /\ UNCHANGED <<schemes, registrations, declared>>

RepeatNext ==
  \/ \E colorValue \in RepeatedValues, theme \in RepeatedContexts :
       ResolveColorValue(colorValue, theme)
  \/ \E theme \in Themes : KateConvert(theme)
  \/ Remember

RepeatSpec == Init /\ [][RepeatNext]_vars

(***************************************************************************)
(* Text styles: conversions of themes that differ in their token rules,    *)
(* written by hand or loaded from a package, and calls of matchScope.      *)
(***************************************************************************)
\* Most token rules of a theme written by hand.
MaxTokenRules == 2

StyleRules ==
  {Rule("variable", "#001080"),
   Rule("keyword", "#0000ff"),
   Rule("keyword", "#ff0000"),
   FontRule(Array(<<"keyword.control", "keyword.operator">>),
            [foreground |-> Str("#af00db"), fontStyle |-> Str("italic")]),
   FontRule(Undefined, [foreground |-> Str("#d4d4d4")]),
   FontRule(Str("comment.block"), [bold |-> True])}

\* The theme downloadTheme returns for the derived theme of a package.
LoadedTheme(vsix) ==
  loadTheme(vsix, PackageJsonPath,
            [path |-> <<".", "themes", "derived.json">>,
             uiTheme |-> Str("vs-dark")])

StyledThemes ==
  [type : {Str("dark")}, name : {"Styled"}, colors : {EmptyObject},
   tokenColors : Sequences(StyleRules, MaxTokenRules)]
    \cup {LoadedTheme(vsix) : vsix \in Packages}

ScopeNames ==
  {"keyword", "keyword.operator", "keyword.operator.new", "keyword.operator.*",
   "comment", "a", "a.*.b", ""}

Scopes ==
  {Undefined} \cup {Str(scope) : scope \in ScopeNames}
    \cup {Array(items) : items \in Sequences(ScopeNames, 2)}

MatchTexts ==
  {"keyword", "keyword.operator.*", "keyword.operator", "comment.*",
   "a.*.b.*", ".*"}

\* A call of matchScope(scopes, matchText).
MatchScope(scopes, matchText) ==
  /\ Idle
  /\ call' = [fn |-> "matchScope", scopes |-> scopes, matchText |-> matchText,
              out |-> matchScope(scopes, matchText)]
  /\ UNCHANGED <<schemes, registrations, declared, themeColors, output,
                  earlier, seen>>

StyleNext ==
  \/ \E theme \in StyledThemes : KateConvert(theme)
  \/ \E theme \in StyledThemes : DocgenConvert(theme)
  \/ \E scopes \in Scopes, matchText \in MatchTexts :
       MatchScope(scopes, matchText)
  \/ Return

StyleSpec == Init /\ [][StyleNext]_vars

(***************************************************************************)
(* The command line: main() validates its arguments, searches, downloads   *)
(* the first result, converts each theme and writes it.  The call record   *)
(* holds where main is (pc), its locals and the requests and writes it     *)
(* has issued so far, in order (events).                                   *)
(***************************************************************************)
\* Faulty variant of providers: the kate provider is not listed.
providersWithoutKate == <<[id |-> "docgen", convert |-> "docgen"]>>

\* const providers of providers/index.ts; convert names the provider module.
providers ==
  <<[id |-> "docgen", convert |-> "docgen"], [id |-> "kate", convert |-> "kate"]>>

\* providers.find((p) => p.id === id)
findProvider(id) ==
  LET found == {i \in DOMAIN providers : Str(providers[i].id) = id}
  IN IF found = {} THEN Undefined
     ELSE providers[CHOOSE i \in found : \A j \in found : i <= j]

\* providers.map((a) => a.id)
allProviders == [i \in DOMAIN providers |-> providers[i].id]

\* !args.provider || (args.provider !== "kate" && args.provider !== "docgen")
providerRejected(args) ==
  Falsy(args.provider)
    \/ (args.provider # Str("kate") /\ args.provider # Str("docgen"))

\* Faulty variant of queryMissing: the query is not looked at.
queryNeverMissing(args) == FALSE

\* !args.query
queryMissing(args) == Falsy(args.query)

\* provider!.convert(theme): what the call returns or throws.
convert(provider, sch, theme) ==
  IF provider = Undefined
  THEN Throw("TypeError: Cannot read properties of undefined (reading 'convert')")
  ELSE IF provider.convert = "kate" THEN kateConvert(sch, theme).result
  ELSE docgenConvert(sch, theme).result

ProviderNames == {"kate", "docgen", "vim", "Kate", ""}

Arguments ==
  [provider : {Undefined} \cup {Str(name) : name \in ProviderNames},
   query : {Undefined, Str(""), Str("material")}]

\* What the search can answer: the extensions found.
SearchResults == {<<>>, <<"material-theme">>, <<"material-theme", "other">>}

\* The package of the extension: a derived theme that includes a base theme,
\* and one whose colours refer to themselves.
Vsix ==
  {(DerivedPath :>
      [type |-> Undefined, name |-> "Derived", colors |-> colors,
       tokenColors |-> <<Rule("variable", "#001080")>>,
       include |-> <<".", "base.json">>])
     @@ (BasePath :> BaseTheme) @@ (RootPath :> RootTheme) :
   colors \in {EmptyObject,
               "editor.background" :> Str("editor.background")}}

\* What the download can answer: whether the response is ok, the package and
\* the themes its package.json contributes.
Responses == [ok : BOOLEAN, vsix : Vsix, themes : Contributed]

\* The process has started: the module is loaded and main is at its first
\* statement.
CliInit ==
  /\ schemes = registerAll(EmptySchemes, Registrations, Len(Registrations))
  /\ declared = declareAll(EmptySchemes, Registrations, Len(Registrations))
  /\ registrations = Len(Registrations)
  /\ themeColors = EmptyObject
  /\ output = NoOutput
  /\ earlier = EmptyObject
  /\ seen = NoCall
  /\ \E args \in Arguments :
       call = [fn |-> "main", pc |-> "provider", args |-> args,
               results |-> <<>>, themes |-> Undefined, provider |-> Undefined,
               written |-> 0, events |-> <<>>, stderr |-> ""]

\* console.error(message); process.exit(-1)
exit(main, message) == [main EXCEPT !.pc = "exit", !.stderr = message]

\* if (!args.provider || ...) { ...; process.exit(-1) }
MainValidateProvider ==
  /\ call.fn = "main" /\ call.pc = "provider"
  /\ call' = IF providerRejected(call.args)
             THEN exit(call, "Please specify provider. One of kate or docgen.")
             ELSE [call EXCEPT !.pc = "query"]
  /\ UNCHANGED <<schemes, registrations, declared, themeColors, output,
                  earlier, seen>>

\* if (!args.query) { ...; process.exit(-1) }
MainValidateQuery ==
  /\ call.fn = "main" /\ call.pc = "query"
  /\ call' = IF queryMissing(call.args)
             THEN exit(call, "Please specify a valid query string.")
             ELSE [call EXCEPT !.pc = "search"]
  /\ UNCHANGED <<schemes, registrations, declared, themeColors, output,
                  earlier, seen>>

\* const results = await searchTheme(args.query);
\* if (results.length <= 0) { ...; process.exit(-1) }
MainSearch(results) ==
  /\ call.fn = "main" /\ call.pc = "search"
  /\ \E searched \in {[call EXCEPT
                         !.results = results,
                         !.events = Append(@, [op |-> "searchTheme",
                                               query |-> call.args.query])]} :
       call' = IF Len(results) <= 0 THEN exit(searched, "Nothing found.")
               ELSE [searched EXCEPT !.pc = "download"]
  /\ UNCHANGED <<schemes, registrations, declared, themeColors, output,
                  earlier, seen>>

\* const themes = await downloadTheme(results[0]);
\* if (!themes) { ...; process.exit(-1) }
\* const provider = findProvider(args.provider);
\* downloadTheme returns undefined when the response is not ok, and a list
\* only when the package contributes a theme.
MainDownload(response) ==
  /\ call.fn = "main" /\ call.pc = "download"
  /\ \E downloaded \in
          {[call EXCEPT
              !.themes = IF response.ok
                         THEN downloadTheme(response.vsix, PackageJsonPath,
                                            response.themes)
                         ELSE Undefined,
              !.events = Append(@, [op |-> "downloadTheme",
                                    theme |-> call.results[1]])]} :
       call' = IF ~response.ok \/ Len(response.themes) = 0
               THEN exit(downloaded, "No themes found for this query.")
               ELSE [downloaded EXCEPT
                       !.pc = "write",
                       !.provider = findProvider(call.args.provider)]
  /\ UNCHANGED <<schemes, registrations, declared, themeColors, output,
                  earlier, seen>>

\* One turn of for (const theme of themes)
\*   await writeFile(`${theme.name}.theme`, provider!.convert(theme));
\* an exception of convert ends main before the file is written.
MainWrite ==
  /\ call.fn = "main" /\ call.pc = "write"
  /\ IF call.written = Len(call.themes)
     THEN call' = [call EXCEPT !.pc = "done"]
     ELSE \E data \in {convert(call.provider, schemes,
                               call.themes[call.written + 1])} :
            call' = IF data.type = "throw"
                    THEN [call EXCEPT !.pc = "rejected", !.stderr = data.error]
                    ELSE [call EXCEPT
                            !.written = @ + 1,
                            !.events =
                              Append(@, [op |-> "writeFile",
                                         file |-> call.themes[call.written + 1].name
                                                    \o ".theme",
                                         data |-> data])]
  /\ UNCHANGED <<schemes, registrations, declared, themeColors, output,
                  earlier, seen>>

CliNext ==
  \/ MainValidateProvider
  \/ MainValidateQuery
  \/ \E results \in SearchResults : MainSearch(results)
  \/ \E response \in Responses : MainDownload(response)
  \/ MainWrite

CliSpec == CliInit /\ [][CliNext]_vars

(***************************************************************************)
(* Properties of the resolver                                              *)
(***************************************************************************)
\* C1: resolveColorValue returns a string that starts with "#" unchanged,
\* whatever the lookup context is, and without consulting the context: the
\* call makes no lookup, no nested resolution and no arithmetic.
C1_LiteralReturnedUnchanged ==
  (/\ call.fn = "resolveColorValue"
   /\ call.colorValue.type = "string"
   /\ Len(call.colorValue.s) > 0
   /\ CharAt(call.colorValue.s, 1) = "#")
  => /\ call.out = call.colorValue
     /\ call.calls = <<Resolved(call.colorValue)>>

\* A literal resolved against a context that has the literal as a key.
C1_Witness ==
  /\ call.fn = "resolveColorValue"
  /\ call.colorValue = Str("#112233")
  /\ call.theme = LiteralKeyContext
  /\ call.out = Str("#112233")

C3_NoDefaultIsUndefined ==
  call.fn = "resolveColorValue"
  => /\ call.colorValue = Null => call.out = Undefined
     /\ \A v \in Variants :
          (/\ call.theme = schemes[v]
           /\ call.colorValue.type = "string"
           /\ ~(Len(call.colorValue.s) > 0 /\ CharAt(call.colorValue.s, 1) = "#")
           /\ \/ call.colorValue.s \notin DOMAIN declared[v]
              \/ declared[v][call.colorValue.s] \in {Null, Undefined})
          => call.out = Undefined

\* C4: an identifier whose registered default in a variant is a literal
\* resolves, against that variant's table, to exactly that literal.
C4_LiteralDefaultResolvesToItself ==
  (call.fn = "resolveColorValue" /\ call.colorValue.type = "string")
  => \A v \in Variants :
       (/\ call.theme = schemes[v]
        /\ call.colorValue.s \in DOMAIN declared[v]
        /\ declared[v][call.colorValue.s].type = "string"
        /\ Len(declared[v][call.colorValue.s].s) > 0
        /\ CharAt(declared[v][call.colorValue.s].s, 1) = "#")
       => call.out = declared[v][call.colorValue.s]

\* The identifier was registered twice, with different literals for light.
C4_Witness ==
  /\ call.fn = "resolveColorValue"
  /\ call.colorValue = Str("foreground")
  /\ call.theme = schemes.light
  /\ registrations = 2
  /\ "foreground" \in DOMAIN declared.light
  /\ declared.light["foreground"] = Str("#222222")
  /\ declared.dark["foreground"] = Str("#111111")
  /\ call.out = Str("#222222")

(***************************************************************************)
(* Properties of the overlay and of the registry                           *)
(***************************************************************************)
\* C5: the overlay a conversion resolves against is the registry table of the
\* theme's variant (light when the theme has no type) overlaid by the theme's
\* colors: a key of theme.colors has the theme's value, any other key has the
\* registry's, and the overlay has no further key.
C5_OverlayIsRegistryUnderTheme ==
  output.provider # "none"
  => LET theme == output.theme
         base == output.before[IF theme.type = Undefined THEN "light"
                               ELSE theme.type.s]
     IN /\ DOMAIN themeColors = DOMAIN base \cup DOMAIN theme.colors
        /\ \A k \in DOMAIN theme.colors : themeColors[k] = theme.colors[k]
        /\ \A k \in DOMAIN base \ DOMAIN theme.colors : themeColors[k] = base[k]

\* A theme without type that overrides a colour the light table defines.
C5_Witness ==
  /\ output.provider = "kate"
  /\ output.theme.type = Undefined
  /\ "editor.background" \in DOMAIN output.theme.colors
  /\ output.theme.colors["editor.background"] = Str("#000000")
  /\ schemes.light["editor.background"] = Str("#ffffff")
  /\ themeColors["editor.background"] = Str("#000000")
  /\ themeColors["foreground"] = Str("#616161")

\* C6: no conversion and no call of resolveColorValue or executeTransform
\* changes the registry: the tables are at all times the ones module
\* initialisation built, and every entry of a conversion's overlay comes from
\* that theme's colors or from those tables, never from a theme converted
\* before.
C6_RegistryReadOnly ==
  /\ schemes = registerAll(EmptySchemes, Registrations, Len(Registrations))
  /\ output.provider # "none"
     => \A k \in DOMAIN themeColors \ DOMAIN output.theme.colors :
          LET base == registerAll(EmptySchemes, Registrations,
                                  Len(Registrations))
                        [IF output.theme.type = Undefined THEN "light"
                         ELSE output.theme.type.s]
          IN k \in DOMAIN base /\ themeColors[k] = base[k]

\* A dark theme without overrides, converted after a theme that overrode
\* editor.background and defined a colour of its own.
C6_Witness ==
  /\ output.provider = "kate"
  /\ output.theme.type = Str("dark")
  /\ output.theme.colors = EmptyObject
  /\ "my.color" \in DOMAIN earlier
  /\ earlier["editor.background"] = Str("#000000")
  /\ "my.color" \notin DOMAIN themeColors
  /\ themeColors["editor.background"] = Str("#1E1E1E")

\* C7: after registerColor(id, D), for every variant for which D supplies a
\* value, the table of that variant maps id to D's value, whatever the table
\* held for id before.
C7_LastWriteWins ==
  (call.fn = "registerColor" /\ call.defaults # Null)
  => \A v \in DOMAIN call.defaults :
       call.defaults[v] # Null
       => /\ call.id \in DOMAIN schemes[v]
          /\ schemes[v][call.id] = call.defaults[v]

\* A second registration that supplies another literal for dark.
C7_Witness ==
  /\ call.fn = "registerColor"
  /\ call.defaults # Null
  /\ call.defaults.dark = Str("#222222")
  /\ call.id \in DOMAIN call.before.dark
  /\ call.before.dark[call.id] = Str("#111111")
  /\ schemes.dark[call.id] = Str("#222222")

\* C8 as stated: after registerColor(id, D), for every variant v for which D
\* gives null or gives nothing, id has no default in v, whatever registrations
\* preceded the call.
C8_NullClearsDefault ==
  call.fn = "registerColor"
  => \A v \in Variants :
       (\/ call.defaults = Null
        \/ v \notin DOMAIN call.defaults
        \/ call.defaults[v] = Null)
       => \/ call.id \notin DOMAIN schemes[v]
          \/ schemes[v][call.id] = Null

\* C8, amended: after registerColor(id, D), for every variant v for which D
\* gives null or gives nothing, the call leaves id in v as it was: id has a
\* default in v exactly when an earlier registration supplied one, and it is
\* that one.
C8_NullSkipsVariant ==
  call.fn = "registerColor"
  => \A v \in Variants :
       (\/ call.defaults = Null
        \/ v \notin DOMAIN call.defaults
        \/ call.defaults[v] = Null)
       => /\ call.id \in DOMAIN schemes[v] <=> call.id \in DOMAIN call.before[v]
          /\ call.id \in DOMAIN call.before[v]
             => schemes[v][call.id] = call.before[v][call.id]

\* A registration that gives null for dark after one that gave a literal.
C8_Witness ==
  /\ call.fn = "registerColor"
  /\ call.defaults # Null
  /\ "dark" \in DOMAIN call.defaults
  /\ call.defaults.dark = Null
  /\ call.id \in DOMAIN call.before.dark
  /\ call.before.dark[call.id] = Str("#111111")
  /\ schemes.dark[call.id] = Str("#111111")

(***************************************************************************)
(* Properties of the transforms                                            *)
(***************************************************************************)
\* C9: a Darken, Lighten or Transparent transform whose nested colour resolves
\* to undefined resolves to undefined, and no arithmetic is performed; when
\* the nested colour resolves to a colour, the result is a colour string, "#"
\* and six hexadecimal digits.
C9_AdjustPropagatesUndefined ==
  (/\ call.fn \in {"resolveColorValue", "executeTransform"}
   /\ call.colorValue.type = "object"
   /\ "op" \in DOMAIN call.colorValue
   /\ call.colorValue.op \in {"Darken", "Lighten", "Transparent"})
  => LET nested == resolveColorValue(call.colorValue.value, call.theme, {}).out
     IN /\ nested = Undefined
           => /\ call.out = Undefined
              /\ \A i \in DOMAIN call.calls : call.calls[i].fn # "tinycolor2"
        /\ (nested.type = "string" /\ nested.s # "")
           => /\ call.out.type = "string"
              /\ Len(call.out.s) = 7
              /\ CharAt(call.out.s, 1) = "#"
              /\ \A i \in 2..7 : IsHexDigit(CharAt(call.out.s, i))
              /\ \E i \in DOMAIN call.calls : call.calls[i].fn = "tinycolor2"

\* Darken of an identifier the context does not define.
C9_Witness ==
  /\ call.fn = "executeTransform"
  /\ call.colorValue = darken(Str("missingId"), 200)
  /\ call.theme = schemes.dark
  /\ call.out = Undefined

\* C10: a OneOf transform resolves to the resolved value of the first
\* candidate, in list order, that resolves to a defined colour, and to
\* undefined when every candidate resolves to undefined (an empty list
\* included); the candidates after the first defined one are not resolved.
C10_OneOfFirstDefined ==
  (/\ call.fn \in {"resolveColorValue", "executeTransform"}
   /\ call.colorValue.type = "object"
   /\ "op" \in DOMAIN call.colorValue
   /\ call.colorValue.op = "OneOf")
  => LET values == call.colorValue.values
         res(i) == resolveColorValue(values[i], call.theme, {})
         Defined(i) == res(i).out.type = "string" /\ res(i).out.s # ""
         RECURSIVE Resolutions(_)
         Resolutions(n) == IF n = 0 THEN 0
                           ELSE Resolutions(n - 1) + Len(res(n).calls)
         own == IF call.fn = "resolveColorValue" THEN 1 ELSE 0
     IN /\ (\A i \in DOMAIN values : res(i).out = Undefined)
           => call.out = Undefined
        /\ \A i \in DOMAIN values :
             (Defined(i) /\ \A j \in 1..(i - 1) : ~Defined(j))
             => /\ call.out = res(i).out
                /\ Len(call.calls) = own + Resolutions(i)

\* C11: an IfDefinedThenElse transform, resolved against a plain mapping from
\* identifiers to values, yields the resolution of its else-colour when the
\* tested identifier has no entry in the mapping and the resolution of its
\* then-colour when the identifier has a non-null entry.
C11_IfDefinedThenElseChooses ==
  (/\ call.fn \in {"resolveColorValue", "executeTransform"}
   /\ call.colorValue.type = "object"
   /\ "op" \in DOMAIN call.colorValue
   /\ call.colorValue.op = "IfDefinedThenElse")
  => LET t == call.colorValue
     IN /\ t.if \notin DOMAIN call.theme
           => call.out = resolveColorValue(t.else, call.theme, {}).out
        /\ (t.if \in DOMAIN call.theme /\ call.theme[t.if] # Null)
           => call.out = resolveColorValue(t.then, call.theme, {}).out

\* C12: against a context built from the registry defaults of a variant and
\* literal string overrides, resolveColorValue returns a string or undefined
\* for every colour value made of literals, references and the six
\* transforms; it throws nothing.
C12_ResolverNeverThrows ==
  (/\ call.fn = "resolveColorValue"
   /\ \E v \in Variants, colors \in ThemeColors :
        /\ \A k \in DOMAIN colors :
             Len(colors[k].s) > 0 /\ CharAt(colors[k].s, 1) = "#"
        /\ call.theme = Spread(schemes[v], colors))
  => call.out.type \in {"string", "undefined"}

\* C13: resolving an identifier of a reference cycle (A -> "B", B -> "A", or a
\* theme override that points a registered identifier back at one that
\* refers to it) terminates with the result undefined.
C13_CycleIsUndefined ==
  (/\ call.fn = "resolveColorValue"
   /\ \/ call.theme = CycleContext /\ call.colorValue \in {Str("A"), Str("B")}
      \/ /\ call.theme =
              Spread(schemes.dark,
                     "editor.background" :> Str("editorGutter.background"))
         /\ call.colorValue \in {Str("editor.background"),
                                 Str("editorGutter.background")})
  => call.out = Undefined

\* C14: a LessProminent transform whose foreground operand resolves to
\* undefined resolves to undefined, and the background is not resolved; when
\* the foreground is defined and the background resolves to undefined, the
\* result is the foreground colour with its alpha set to factor x
\* transparency (as far as two hexadecimal digits can show it), and no
\* luminance comparison is made.
C14_LessProminentFallback ==
  (/\ call.fn \in {"resolveColorValue", "executeTransform"}
   /\ call.colorValue.type = "object"
   /\ "op" \in DOMAIN call.colorValue
   /\ call.colorValue.op = "LessProminent")
  => LET t == call.colorValue
         from == resolveColorValue(t.value, call.theme, {})
         backgroundColor == resolveColorValue(t.background, call.theme, {})
         own == IF call.fn = "resolveColorValue" THEN 1 ELSE 0
     IN /\ from.out = Undefined
           => /\ call.out = Undefined
              /\ Len(call.calls) = own + Len(from.calls)
        /\ (from.out.type = "string" /\ from.out.s # ""
              /\ backgroundColor.out = Undefined)
           => /\ call.out.type = "string"
              /\ LET shown == tinycolor2(call.out.s)
                     fg == tinycolor2(from.out.s)
                     alpha == (t.factor * t.transparency) \div 1000
                 IN /\ <<shown.r, shown.g, shown.b>> = <<fg.r, fg.g, fg.b>>
                    /\ shown.a - alpha \in -3..3
              /\ Cardinality({i \in DOMAIN call.calls :
                                call.calls[i].fn = "tinycolor2"}) = 1

\* C15: whenever a LessProminent(fg, bg, factor, transparency) transform
\* resolves to a defined colour, the alpha channel the returned colour string
\* shows is transparency (as far as two hexadecimal digits can show it).
C15_LessProminentAlpha ==
  (/\ call.fn \in {"resolveColorValue", "executeTransform"}
   /\ call.colorValue.type = "object"
   /\ "op" \in DOMAIN call.colorValue
   /\ call.colorValue.op = "LessProminent"
   /\ call.out.type = "string")
  => tinycolor2(call.out.s).a - call.colorValue.transparency \in -3..3

\* C16: for a LessProminent transform whose operands resolve to colours with
\* luminance(fg) < luminance(bg): when factor = 0 the result has the
\* luminance of fg, and when 0 < factor < 1 the luminance of the result lies
\* strictly between those of fg and bg.
C16_LessProminentLuminance ==
  (/\ call.fn \in {"resolveColorValue", "executeTransform"}
   /\ call.colorValue.type = "object"
   /\ "op" \in DOMAIN call.colorValue
   /\ call.colorValue.op = "LessProminent"
   /\ call.out.type = "string")
  => LET t == call.colorValue
         from == resolveColorValue(t.value, call.theme, {}).out
         backgroundColor == resolveColorValue(t.background, call.theme, {}).out
     IN (/\ from.type = "string"
         /\ backgroundColor.type = "string"
         /\ getLuminance(tinycolor2(from.s))
              < getLuminance(tinycolor2(backgroundColor.s)))
        => LET fg == getLuminance(tinycolor2(from.s))
               bg == getLuminance(tinycolor2(backgroundColor.s))
               result == getLuminance(tinycolor2(call.out.s))
           IN /\ t.factor = 0 => result = fg
              /\ (0 < t.factor /\ t.factor < 1000)
                 => (fg < result /\ result < bg)

\* C17: a Transparent(color, factor) transform whose colour resolves to a
\* defined value returns that colour with its alpha channel set to factor,
\* and the returned string shows it: Transparent("#000000", 0.5) gives
\* "#00000080" or an equivalent eight digit form.
C17_TransparentShowsAlpha ==
  (/\ call.fn \in {"resolveColorValue", "executeTransform"}
   /\ call.colorValue.type = "object"
   /\ "op" \in DOMAIN call.colorValue
   /\ call.colorValue.op = "Transparent"
   /\ call.out.type = "string")
  => LET color == resolveColorValue(call.colorValue.value, call.theme, {}).out
         shown == tinycolor2(call.out.s)
         given == tinycolor2(color.s)
     IN /\ <<shown.r, shown.g, shown.b>> = <<given.r, given.g, given.b>>
        /\ shown.a - call.colorValue.factor \in -3..3
        /\ call.colorValue = transparent(Str("#000000"), 500)
           => call.out \in {Str("#00000080"), Str("#0000007f"),
                            Str("#0000007F")}

\* C18: when a theme overrides an identifier with a value that is not a
\* well-formed colour literal (a string that starts with "#" and is not "#"
\* and six or eight hexadecimal digits, or a name the context does not know),
\* resolving the identifier returns undefined: nothing is thrown and the
\* value is not passed through.
C18_MalformedOverrideIsUndefined ==
  (/\ call.fn = "resolveColorValue"
   /\ call.colorValue.type = "string"
   /\ \E v \in Variants, colors \in ThemeColors :
        /\ call.theme = Spread(schemes[v], colors)
        /\ call.colorValue.s \in DOMAIN colors
        /\ LET value == colors[call.colorValue.s].s
           IN IF Len(value) > 0 /\ CharAt(value, 1) = "#"
              THEN ~(Len(value) \in {7, 9} /\ IsHex(SubSeq(value, 2, Len(value))))
              ELSE Lookup(call.theme, value) = Undefined)
  => call.out = Undefined

C20_IncludeMerge ==
  call.fn = "downloadTheme"
  => \A i \in DOMAIN call.themes :
       LET themePath == join(dirname(PackageJsonPath), call.themes[i].path)
           derived == call.vsix[themePath]
           loaded == call.out[i]
       IN "include" \in DOMAIN derived
          => LET base == call.vsix[join(dirname(themePath), derived.include)]
                 n == Len(derived.tokenColors)
             IN /\ DOMAIN loaded.colors
                     = DOMAIN base.colors \cup DOMAIN derived.colors
                /\ \A k \in DOMAIN derived.colors :
                     loaded.colors[k] = derived.colors[k]
                /\ \A k \in DOMAIN base.colors \ DOMAIN derived.colors :
                     loaded.colors[k] = base.colors[k]
                /\ Len(loaded.tokenColors) = n + Len(base.tokenColors)
                /\ \A j \in 1..n :
                     loaded.tokenColors[j] = derived.tokenColors[j]
                /\ \A j \in 1..Len(base.tokenColors) :
                     loaded.tokenColors[n + j] = base.tokenColors[j]

\* A derived theme with one rule that overrides a colour of its base, a base
\* with two rules that itself includes a third theme.
C20_Witness ==
  /\ call.fn = "downloadTheme"
  /\ Len(call.themes) > 0
  /\ call.themes[1].path = <<".", "themes", "derived.json">>
  /\ "include" \in DOMAIN call.vsix[BasePath]
  /\ call.vsix[DerivedPath].colors = "editor.background" :> Str("#000000")
  /\ call.vsix[DerivedPath].tokenColors = <<Rule("variable", "#001080")>>
  /\ call.out[1].colors
       = ("editor.background" :> Str("#000000"))
           @@ ("foreground" :> Str("#eeeeee"))
  /\ call.out[1].tokenColors
       = <<Rule("variable", "#001080"), Rule("comment", "#008000"),
           Rule("string", "#a31515")>>

(***************************************************************************)
(* Properties of the renderers and of the command line                     *)
(***************************************************************************)
\* The rules of tokenColors whose scope matches id, by position.
Matching(tokenColors, id) ==
  {i \in DOMAIN tokenColors : matchScope(tokenColors[i].scope, id) = True}

\* The text style the kate document holds for the token rule.
StyleOf(rule) ==
  Stringified([p \in DOMAIN kateStyle(rule) \ {"type"} |-> kateStyle(rule)[p]])

\* C21: the kate renderer takes the style of a scope from the first rule of
\* tokenColors whose scope matches it; in a theme that includes a base theme,
\* a rule of the derived theme that matches the scope therefore wins over the
\* rules of the base theme.
C21_FirstMatchingRule ==
  (output.provider = "kate" /\ output.result.type = "document") =>
    /\ \A i \in DOMAIN KateTextStyles :
         LET key == KateTextStyles[i][1]
             id == KateTextStyles[i][2][1]
             rules == output.theme.tokenColors
             first == CHOOSE m \in Matching(rules, id) :
                        \A n \in Matching(rules, id) : m <= n
         IN Matching(rules, id) # {} =>
              /\ key \in DOMAIN output.result.textStyles
              /\ output.result.textStyles[key] = StyleOf(rules[first])
    /\ \A vsix \in Packages :
         output.theme = LoadedTheme(vsix) =>
           \A i \in DOMAIN KateTextStyles :
             LET key == KateTextStyles[i][1]
                 id == KateTextStyles[i][2][1]
                 derived == vsix[DerivedPath].tokenColors
                 own == CHOOSE m \in Matching(derived, id) :
                          \A n \in Matching(derived, id) : m <= n
             IN Matching(derived, id) # {} =>
                  output.result.textStyles[key] = StyleOf(derived[own])

\* A theme with a rule for comments, which includes a theme with another rule
\* for comments, is converted: comments get the colour of the derived theme.
C21_Witness ==
  /\ output.provider = "kate"
  /\ output.result.type = "document"
  /\ \E vsix \in Packages :
       /\ output.theme = LoadedTheme(vsix)
       /\ Matching(vsix[DerivedPath].tokenColors, "comment") # {}
       /\ Matching(vsix[BasePath].tokenColors, "comment") # {}
  /\ output.result.textStyles["Comment"].textColor = Str("#6a9955")

\* C22: an object whose op is none of the six transform tags makes
\* executeTransform throw Error("Invalid transform"), called directly or by
\* resolveColorValue; the result is neither undefined nor a colour.
C22_InvalidTransformThrows ==
  (/\ call.fn \in {"executeTransform", "resolveColorValue"}
   /\ call.colorValue.type = "object"
   /\ ("op" \notin DOMAIN call.colorValue
         \/ call.colorValue.op \notin TransformOps)) =>
    call.out = Throw("Error: Invalid transform")

\* executeTransform has been called with the tag "Mix" and has thrown.
C22_Witness ==
  /\ call.fn = "executeTransform"
  /\ "op" \in DOMAIN call.colorValue
  /\ call.colorValue.op = "Mix"
  /\ call.out = Throw("Error: Invalid transform")

\* C23: LessProminent with both operands defined lightens the foreground when
\* its luminance is below the background's and darkens it otherwise, by
\* factor * (difference of the luminances) / (the larger luminance), an
\* amount that is a number between 0 and factor, also for black on black.
\* Stated for factors other than 0.
C23_LessProminentAmount ==
  (/\ call.fn = "executeTransform"
   /\ call.colorValue \in Transforms \ InvalidTransforms
   /\ call.colorValue.op = "LessProminent"
   /\ call.colorValue.factor # 0
   /\ resolve(call.colorValue.value, call.theme).out.type = "string"
   /\ resolve(call.colorValue.background, call.theme).out.type = "string") =>
    LET tFrom == tinycolor2(resolve(call.colorValue.value, call.theme).out.s)
        tBg == tinycolor2(resolve(call.colorValue.background, call.theme).out.s)
        lighter == getLuminance(tFrom) < getLuminance(tBg)
        amount == IF lighter
                  THEN lighterAmount(tFrom, tBg, call.colorValue.factor)
                  ELSE darkerAmount(tFrom, tBg, call.colorValue.factor)
    IN /\ ~amount.nan
       /\ amount.value \in 0..(10 * call.colorValue.factor)
       /\ call.out =
            Str(toHexString(setAlpha(
              IF lighter THEN tinyLighten(tFrom, amount.value)
              ELSE tinyDarken(tFrom, amount.value),
              call.colorValue.transparency)))

RECURSIVE FirstResolved(_, _, _)

\* What the first of the identifiers ids[i], ids[i + 1], ... that resolves to
\* a colour resolves to, and undefined when none does.
FirstResolved(ids, i, theme) ==
  IF i > Len(ids) THEN Undefined
  ELSE IF resolve(Str(ids[i]), theme).out.type = "string"
  THEN resolve(Str(ids[i]), theme).out
  ELSE FirstResolved(ids, i + 1, theme)

\* C24: the kate renderer writes a resolved colour of 9 characters,
\* "#RRGGBBAA", alpha first ("#AARRGGBB"), writes a resolved colour of any
\* other length unchanged and writes nothing for an identifier that resolves
\* to undefined; the resolver returns a literal of 9 characters as it is.
C24_KateAlphaFirst ==
  /\ (output.provider = "kate" /\ output.result.type = "document") =>
       \A i \in DOMAIN KateEditorColors :
         LET key == KateEditorColors[i][1]
             c == FirstResolved(KateEditorColors[i][2], 1, themeColors)
             written == output.result.editorColors
         IN /\ (c.type = "string" /\ Len(c.s) = 9) =>
                 /\ key \in DOMAIN written
                 /\ written[key] = Str("#" \o SubSeq(c.s, 8, 9)
                                           \o SubSeq(c.s, 2, 7))
            /\ (c.type = "string" /\ Len(c.s) # 9) =>
                 (key \in DOMAIN written /\ written[key] = c)
            /\ c = Undefined => key \notin DOMAIN written
  /\ (/\ call.fn = "resolveColorValue"
      /\ call.colorValue.type = "string"
      /\ isLiteral(call.colorValue.s)) =>
       call.out = call.colorValue

\* A kate document with a colour written alpha first, a colour written
\* unchanged and a property left out.
C24_Witness ==
  /\ output.provider = "kate"
  /\ output.result.type = "document"
  /\ \E i, j, k \in DOMAIN KateEditorColors :
       LET ci == FirstResolved(KateEditorColors[i][2], 1, themeColors)
           cj == FirstResolved(KateEditorColors[j][2], 1, themeColors)
           ck == FirstResolved(KateEditorColors[k][2], 1, themeColors)
       IN /\ ci.type = "string" /\ Len(ci.s) = 9
          /\ SubSeq(ci.s, 8, 9) # SubSeq(ci.s, 2, 3)
          /\ output.result.editorColors[KateEditorColors[i][1]] # ci
          /\ cj.type = "string" /\ Len(cj.s) = 7
          /\ output.result.editorColors[KateEditorColors[j][1]] = cj
          /\ ck = Undefined
          /\ KateEditorColors[k][1] \notin DOMAIN output.result.editorColors

\* The editor-color keys that convert computes from VS Code identifiers.
MappedKeys == {KateEditorColors[i][1] : i \in DOMAIN KateEditorColors}

\* C25: the renderers leave out every property whose colour is undefined.  A
\* kate document holds a mapped editor-color key exactly when one of its
\* identifiers resolves to a colour (the Kate default of the key never takes
\* its place) and holds the Kate default for exactly the keys that have no
\* mapping; a docgen document holds a CSS variable exactly when its value is
\* defined.
C25_UndefinedIsOmitted ==
  /\ (output.provider = "kate" /\ output.result.type = "document") =>
       LET written == output.result.editorColors
           defaults == IF output.theme.type = Str("dark")
                       THEN KATE_DEFAULT_COLORS.dark
                       ELSE KATE_DEFAULT_COLORS.light
       IN /\ \A i \in DOMAIN KateEditorColors :
               KateEditorColors[i][1] \in DOMAIN written
                 <=> FirstResolved(KateEditorColors[i][2], 1,
                                   themeColors) # Undefined
          /\ DOMAIN written \ MappedKeys = DOMAIN defaults \ MappedKeys
          /\ \A k \in DOMAIN defaults \ MappedKeys :
               written[k] = Str(defaults[k])
  /\ (output.provider = "docgen" /\ output.result.type = "document") =>
       \A i \in DOMAIN DocgenVariables :
         DocgenVariables[i][1] \in DOMAIN output.result.variables
           <=> \/ FirstResolved(DocgenVariables[i][2], 1,
                                themeColors) # Undefined
               \/ DocgenVariables[i][3] # Undefined

\* A kate document that lacks a mapped key for which Kate has a default and
\* holds the default of a key that has no mapping.
C25_Witness ==
  /\ output.provider = "kate"
  /\ output.result.type = "document"
  /\ \E k \in MappedKeys \cap DOMAIN KATE_DEFAULT_COLORS.dark :
       k \notin DOMAIN output.result.editorColors
  /\ \E k \in MappedKeys : k \in DOMAIN output.result.editorColors
  /\ \E k \in DOMAIN output.result.editorColors : k \notin MappedKeys

\* C26: whatever resolveColorValue or executeTransform returns that is not
\* undefined is a string that begins with "#": a name of an identifier is
\* never returned as a colour.
C26_ResultBeginsWithHash ==
  (call.fn \in {"resolveColorValue", "executeTransform"}
     /\ call.out.type \notin {"undefined", "throw"}) =>
    /\ call.out.type = "string"
    /\ Len(call.out.s) > 0
    /\ SubSeq(call.out.s, 1, 1) = "#"

\* An identifier has been resolved to a colour, and so has a transform.
C26_Witness ==
  /\ call.fn = "resolveColorValue"
  /\ call.out.type = "string"
  /\ \/ call.colorValue.type = "object"
     \/ call.colorValue.type = "string" /\ SubSeq(call.colorValue.s, 1, 1) # "#"

\* C27: main runs its steps in the order validate provider, validate query,
\* search, download, convert and write, and stops at the first step that
\* fails: it searches only with a provider "kate" or "docgen" and a query,
\* downloads only the first result of a search that found something, writes
\* only themes the download returned, and when it completes it has written
\* each downloaded theme once, in list order, to "<theme.name>.theme".
C27_PipelineOrder ==
  call.fn = "main" =>
    LET e == call.events
    IN /\ \A i \in DOMAIN e :
            /\ e[i].op = "searchTheme" =>
                 /\ i = 1
                 /\ call.args.provider \in {Str("kate"), Str("docgen")}
                 /\ call.args.query.type = "string"
                 /\ call.args.query.s # ""
                 /\ e[i].query = call.args.query
            /\ e[i].op = "downloadTheme" =>
                 /\ i = 2
                 /\ e[1].op = "searchTheme"
                 /\ Len(call.results) > 0
                 /\ e[i].theme = call.results[1]
            /\ e[i].op = "writeFile" =>
                 /\ i >= 3
                 /\ e[2].op = "downloadTheme"
                 /\ i - 2 <= Len(call.themes)
                 /\ e[i].file = call.themes[i - 2].name \o ".theme"
       /\ call.pc = "done" =>
            /\ Len(e) = 2 + Len(call.themes)
            /\ \A k \in 1..Len(call.themes) : e[k + 2].op = "writeFile"
       /\ call.pc = "exit" =>
            /\ Len(e) <= 2
            /\ Len(e) = 1 => Len(call.results) = 0
            /\ \A i \in DOMAIN e : e[i].op # "writeFile"

\* main has completed after writing two themes.
C27_Witness ==
  /\ call.fn = "main"
  /\ call.pc = "done"
  /\ Len(call.events) = 4
  /\ call.events[3].op = "writeFile"
  /\ call.events[3].file = "Derived.theme"
  /\ call.events[4].file = "Base.theme"

\* C30: the provider names main accepts are the ids allProviders() returns;
\* findProvider(id) returns the provider with that id for each of them and
\* undefined for any other id; the provider main converts with is therefore
\* never undefined and is the one the arguments name.
C30_ProviderIsFound ==
  /\ {name \in ProviderNames :
        ~providerRejected([provider |-> Str(name), query |-> Undefined])}
       = {allProviders[i] : i \in DOMAIN allProviders}
  /\ \A name \in ProviderNames :
       IF \E i \in DOMAIN allProviders : allProviders[i] = name
       THEN findProvider(Str(name)) # Undefined
              /\ findProvider(Str(name)).id = name
       ELSE findProvider(Str(name)) = Undefined
  /\ findProvider(Undefined) = Undefined
  /\ (call.fn = "main" /\ call.pc \in {"write", "done", "rejected"}) =>
       /\ call.provider # Undefined
       /\ Str(call.provider.id) = call.args.provider

\* main has validated "kate", downloaded themes and holds the kate provider.
C30_Witness ==
  /\ call.fn = "main"
  /\ call.pc = "write"
  /\ call.args.provider = Str("kate")
  /\ call.provider # Undefined
  /\ call.provider.convert = "kate"

\* C28: a text style written toKateStyle(a) || toKateStyle(b) falls back to
\* b: when no rule of the theme matches scope a and a rule matches scope b,
\* the style is that of the first rule that matches b, whether or not the
\* theme has a rule for "variable".
C28_StyleFallback ==
  (output.provider = "kate" /\ output.result.type = "document") =>
    \A i \in DOMAIN KateTextStyles :
      LET key == KateTextStyles[i][1]
          ids == KateTextStyles[i][2]
          rules == output.theme.tokenColors
          second == CHOOSE m \in Matching(rules, ids[2]) :
                      \A n \in Matching(rules, ids[2]) : m <= n
      IN (/\ Len(ids) = 2
          /\ Matching(rules, ids[1]) = {}
          /\ Matching(rules, ids[2]) # {}) =>
           /\ key \in DOMAIN output.result.textStyles
           /\ output.result.textStyles[key] = StyleOf(rules[second])

\* The text of matchText before its first ".*", and matchText when it has
\* none.
BeforeWildcard(matchText) ==
  IF \E i \in 1..(Len(matchText) - 1) : SubSeq(matchText, i, i + 1) = ".*"
  THEN LET first == CHOOSE i \in 1..(Len(matchText) - 1) :
                      /\ SubSeq(matchText, i, i + 1) = ".*"
                      /\ \A j \in 1..(i - 1) : SubSeq(matchText, j, j + 1) # ".*"
       IN SubSeq(matchText, 1, first - 1)
  ELSE matchText

\* C29: matchScope(scopes, matchText) returns true exactly when an element of
\* scopes (a lone string counts as a list of one) is matchText or is the text
\* of matchText before its first ".*"; otherwise, also for undefined scopes
\* and for a scope below a wildcard pattern, it returns undefined.
C29_MatchScopeExact ==
  call.fn = "matchScope" =>
    LET elements == IF call.scopes.type = "string" THEN {call.scopes.s}
                    ELSE IF call.scopes.type = "array"
                    THEN {call.scopes.items[i] : i \in DOMAIN call.scopes.items}
                    ELSE {}
    IN IF \E scope \in elements :
            scope = call.matchText \/ scope = BeforeWildcard(call.matchText)
       THEN call.out = True
       ELSE call.out = Undefined

\* matchScope has returned undefined for "keyword.operator.new" against
\* "keyword.operator.*".
C29_Witness ==
  /\ call.fn = "matchScope"
  /\ call.scopes = Str("keyword.operator.new")
  /\ call.matchText = "keyword.operator.*"
  /\ call.out = Undefined

====
